---- MODULE Spec2Model ----
(***************************************************************************)
(* A model of phoebe/io/parsers.py: legacy_to_phoebe, the converter of a   *)
(* legacy PHOEBE "key = value" parameter file into parameter sets, and     *)
(* from_supconj_to_perpass, the epoch-convention transform; and of the     *)
(* experimental backends of phoebe/parameters/compute.py.                  *)
(*                                                                         *)
(* Python strings are TLA+ strings: Len, SubSeq and \o act on them, so a   *)
(* slice, a split or a search is computed character by character, as the   *)
(* code computes it.  A raised exception ends the call (pc = "failed").    *)
(***************************************************************************)
EXTENDS Integers, Sequences, FiniteSets, TLC

VARIABLES
    pc,             \* position of the call: "lines", "post", "reduce", "assemble", "done", "failed"
    file,           \* lines = ff.readlines()
    pos,            \* 1-based position of the next line of the for loop
    create_body,    \* keyword arguments of legacy_to_phoebe
    create_bundle,
    mesh,
    defined,        \* names of the locals bound so far (reading another one is a NameError)
    index,          \* dataset index left by the last bracketed key
    lcno, rvno,
    orbit, comp1, comp2, globals, mesh1wd, mesh2wd,
    lcdep1, lcdep2,
    ld_xbol1, ld_xbol2, ld_ybol1, ld_ybol2,
    ld_lcy1, ld_lcy2, ld_rvx1, ld_rvx2,
    rv_dep, prim_rv, sec_rv, rv_pb, rv_pbweight,
    ld_coeffs1, ld_coeffs2, rv_file, rvtime, rvsigma, rvname,
    rvdep1, rvdep2,
    i, j, k, l, m,  \* counters of the reduction loop
    obsrv1, obsrv2,
    built,          \* what the construction collaborators were called with
    result,         \* the value returned
    ncalls,         \* calls of from_supconj_to_perpass made on the returned orbit
    me,             \* the invocation whose frame the variables above hold
    other,          \* the frame of a second invocation, suspended
    devel,          \* conf.devel
    call,           \* a call of a function of parameters/compute.py: name and kwargs
    ret             \* what that call returned or raised

lineVars == <<defined, index, lcno, rvno, orbit, comp1, comp2, globals,
              mesh1wd, mesh2wd, lcdep1, lcdep2, ld_xbol1, ld_xbol2, ld_ybol1,
              ld_ybol2, ld_lcy1, ld_lcy2, ld_rvx1, ld_rvx2, rv_dep, prim_rv,
              sec_rv, rv_pb, rv_pbweight, ld_coeffs1, ld_coeffs2, rv_file,
              rvtime, rvsigma, rvname>>
reduceVars == <<rvdep1, rvdep2, i, j, k, l, m, obsrv1, obsrv2>>
argVars == <<file, create_body, create_bundle, mesh>>
frameVars == <<pc, pos, argVars, lineVars, reduceVars, built, result, ncalls>>
sideVars == <<me, other>>
computeVars == <<devel, call, ret>>
vars == <<frameVars, sideVars, computeVars>>

(***************************************************************************)
(* Python string primitives.                                               *)
(***************************************************************************)
Min2(a, b) == IF a < b THEN a ELSE b
Max2(a, b) == IF a < b THEN b ELSE a

\* A slice bound, as Python clamps it: negative bounds count from the end.
Clamp(n, len) == IF n < 0 THEN Max2(n + len, 0) ELSE Min2(n, len)

\* s[a:b]
Slice(s, a, b) ==
    LET lo == Clamp(a, Len(s))
        hi == Clamp(b, Len(s))
    IN  IF lo >= hi THEN "" ELSE SubSeq(s, lo + 1, hi)

\* s[a:]
SliceFrom(s, a) == Slice(s, a, Len(s))

\* s[p] for 0 <= p < len(s)
CharAt(s, p) == SubSeq(s, p + 1, p + 1)

StartsAt(s, sub, p) ==
    /\ p + Len(sub) <= Len(s)
    /\ SubSeq(s, p + 1, p + Len(sub)) = sub

\* s.find(sub, p): the first position >= p where sub occurs, or -1
RECURSIVE FindFrom(_, _, _)
FindFrom(s, sub, p) ==
    IF p + Len(sub) > Len(s) THEN -1
    ELSE IF StartsAt(s, sub, p) THEN p
    ELSE FindFrom(s, sub, p + 1)

\* len(s.split(sub)) - 1
RECURSIVE Count(_, _)
Count(s, sub) ==
    LET p == FindFrom(s, sub, 0)
    IN  IF p < 0 THEN 0 ELSE 1 + Count(SliceFrom(s, p + Len(sub)), sub)

\* new.join(s.split(old))
RECURSIVE JoinSplit(_, _, _)
JoinSplit(s, old, new) ==
    LET p == FindFrom(s, old, 0)
    IN  IF p < 0 THEN s
        ELSE Slice(s, 0, p) \o new \o JoinSplit(SliceFrom(s, p + Len(old)), old, new)

Lowercase == "abcdefghijklmnopqrstuvwxyz"
Uppercase == "ABCDEFGHIJKLMNOPQRSTUVWXYZ"
DigitChars == "0123456789"

UpperChar(c) ==
    LET p == FindFrom(Lowercase, c, 0)
    IN  IF p < 0 THEN c ELSE CharAt(Uppercase, p)

\* s.upper()
RECURSIVE Upper(_)
Upper(s) == IF s = "" THEN "" ELSE UpperChar(CharAt(s, 0)) \o Upper(SliceFrom(s, 1))

IsDigit(c) == Len(c) = 1 /\ FindFrom(DigitChars, c, 0) >= 0
DigitVal(c) == FindFrom(DigitChars, c, 0)

IsSpace(c) == c \in {" ", "\n", "\t", "\r"}

\* s.strip()
RECURSIVE LStrip(_)
LStrip(s) == IF s # "" /\ IsSpace(CharAt(s, 0)) THEN LStrip(SliceFrom(s, 1)) ELSE s
RECURSIVE RStrip(_)
RStrip(s) ==
    IF s # "" /\ IsSpace(CharAt(s, Len(s) - 1)) THEN RStrip(Slice(s, 0, -1)) ELSE s
Strip(s) == RStrip(LStrip(s))

(***************************************************************************)
(* Numbers.  A number is the exact decimal m * 10^(-e), kept normalized    *)
(* (no trailing zero in the fraction), so equal numbers are equal records. *)
(***************************************************************************)
RECURSIVE Pow10(_)
Pow10(n) == IF n = 0 THEN 1 ELSE 10 * Pow10(n - 1)

RECURSIVE Norm(_, _)
Norm(mm, ee) ==
    IF mm = 0 THEN [m |-> 0, e |-> 0]
    ELSE IF ee > 0 /\ mm % 10 = 0 THEN Norm(mm \div 10, ee - 1)
    ELSE [m |-> mm, e |-> ee]

Num(mm, ee) == Norm(mm, ee)
NumAdd(a, b) ==
    LET ee == Max2(a.e, b.e)
    IN  Norm(a.m * Pow10(ee - a.e) + b.m * Pow10(ee - b.e), ee)
NumNeg(a) == [m |-> 0 - a.m, e |-> a.e]
NumSub(a, b) == NumAdd(a, NumNeg(b))
NumMul(a, b) == Norm(a.m * b.m, a.e + b.e)

RECURSIVE AllDigits(_)
AllDigits(s) == s = "" \/ (IsDigit(CharAt(s, 0)) /\ AllDigits(SliceFrom(s, 1)))

RECURSIVE DigitsVal(_, _)
DigitsVal(s, acc) ==
    IF s = "" THEN acc ELSE DigitsVal(SliceFrom(s, 1), 10 * acc + DigitVal(CharAt(s, 0)))

RECURSIVE DropZeros(_)
DropZeros(s) ==
    IF s # "" /\ CharAt(s, Len(s) - 1) = "0" THEN DropZeros(Slice(s, 0, -1)) ELSE s

\* The text of a number once the surrounding blanks and the sign are gone:
\* digits with at most one point and at least one digit.
Unsigned(t) ==
    LET p    == FindFrom(t, ".", 0)
        ip   == IF p < 0 THEN t ELSE Slice(t, 0, p)
        fp   == IF p < 0 THEN "" ELSE SliceFrom(t, p + 1)
        good == AllDigits(ip) /\ AllDigits(fp) /\ Len(ip) + Len(fp) > 0
        fz   == DropZeros(fp)
    IN  IF good
        THEN [ok |-> TRUE, v |-> Norm(DigitsVal(ip \o fz, 0), Len(fz))]
        ELSE [ok |-> FALSE, v |-> Num(0, 0)]

\* float(s): ok is FALSE where Python raises ValueError.  Decimal notation
\* only (no exponent, inf or nan: the files of the model hold none).
PyFloat(s) ==
    LET t   == Strip(s)
        neg == t # "" /\ CharAt(t, 0) = "-"
        u   == IF t # "" /\ CharAt(t, 0) \in {"-", "+"} THEN SliceFrom(t, 1) ELSE t
        r   == Unsigned(u)
    IN  IF r.ok /\ neg THEN [ok |-> TRUE, v |-> NumNeg(r.v)] ELSE r

\* int(s): ok is FALSE where Python raises ValueError.
PyInt(s) ==
    LET t   == Strip(s)
        neg == t # "" /\ CharAt(t, 0) = "-"
        u   == IF t # "" /\ CharAt(t, 0) \in {"-", "+"} THEN SliceFrom(t, 1) ELSE t
    IN  IF u # "" /\ AllDigits(u)
        THEN [ok |-> TRUE, v |-> IF neg THEN 0 - DigitsVal(u, 0) ELSE DigitsVal(u, 0)]
        ELSE [ok |-> FALSE, v |-> 0]

(***************************************************************************)
(* The tokenizer, the index resolver and the value normalizer of the line  *)
(* loop (lines 71-119).                                                    *)
(***************************************************************************)

\* SplitsInTwo taking a line without '=' for a pair with an empty part.
\* A faulty variant of SplitsInTwo, which lets a line without '=' through.
SplitsInTwo_AtMostOne(line) == Count(line, "=") <= 1
\* key, val = l.split('='): anything but exactly two parts raises inside the
\* try and the line is skipped.
SplitsInTwo(line) == Count(line, "=") = 1
KeyOf(line) == Slice(line, 0, FindFrom(line, "=", 0))
ValOf(line) == SliceFrom(line, FindFrom(line, "=", 0) + 1)

\* re.search('\[(\d)\]', key): the position of the leftmost match, or -1
RECURSIVE SearchBracket(_, _)
SearchBracket(key, p) ==
    IF p + 3 > Len(key) THEN -1
    ELSE IF /\ CharAt(key, p) = "["
            /\ IsDigit(CharAt(key, p + 1))
            /\ CharAt(key, p + 2) = "]"
         THEN p
    ELSE SearchBracket(key, p + 1)

HasBracket(key) == SearchBracket(key, 0) >= 0
\* int(pattern.group(1)) - 1
BracketIndex(key) == DigitVal(CharAt(key, SearchBracket(key, 0) + 1)) - 1
\* "".join(key.split(pattern.group(0)))
StripBracket(key) ==
    LET p == SearchBracket(key, 0)
    IN  IF p < 0 THEN key ELSE JoinSplit(key, Slice(key, p, p + 3), "")

\* The synonym table of lines 97-117, applied to the upper-cased name.
Synonym(v) ==
    CASE v = "COROT.SISMO"             -> "COROT.SIS"
      [] v = "KEPLER.MEAN"             -> "KEPLER.V"
      [] v = "IRAC.CH1"                -> "IRAC.36"
      [] v = "MOST.DEFAULT"            -> "MOST.V"
      [] v = "STROMGREN.HBETA_NARROW"  -> "STROMGREN.HBN"
      [] v = "STROMGREN.HBETA_WIDE"    -> "STROMGREN.HBW"
      [] v = "BOLOMETRIC.3000A-10000A" -> "OPEN.BOL"
      [] v = "HIPPARCOS.BT"            -> "TYCHO.BT"
      [] v = "HIPPARCOS.VT"            -> "TYCHO.VT"
      [] OTHER ->
            IF Slice(v, 0, 5) = "SLOAN"
            THEN Slice(JoinSplit(v, "SLOAN", "SDSS"), 0, -1)
            ELSE v

\* HasSeparator matching the point as well as the colon.
\* A faulty variant of HasSeparator, which also takes a point for a separator.
HasSeparator_Any(val) == FindFrom(val, ":", 0) >= 0 \/ FindFrom(val, ".", 0) >= 0
\* separate = re.search('\:', val)
HasSeparator(val) == FindFrom(val, ":", 0) >= 0

\* The rewriting of val in lines 89-117; it is applied to the value of every
\* line, whatever its key.
PassbandRemap(val) ==
    IF Slice(val, 2, 5) = "Bes"
    THEN LET v == JoinSplit(Upper(Slice(val, 2, -2)), "L IR:", ".")
         IN  IF Slice(v, 0, 8) = "BESSEL.L" THEN "BESSEL.LPRIME" ELSE v
    ELSE IF HasSeparator(val)
    THEN Synonym(Upper(Slice(JoinSplit(val, ":", "."), 2, -2)))
    ELSE val

\* while key[len(key)-1] == ' ': key = key[:-1]
\* key[-1] of the empty string is an IndexError: ok is FALSE.
RECURSIVE StripKey(_)
StripKey(key) ==
    IF key = "" THEN [ok |-> FALSE, key |-> ""]
    ELSE IF CharAt(key, Len(key) - 1) = " " THEN StripKey(Slice(key, 0, -1))
    ELSE [ok |-> TRUE, key |-> key]

(***************************************************************************)
(* Parameter sets.  A ParameterSet maps a qualifier to a parameter; a      *)
(* parameter of the orbit, a component, the globals or a mesh holds its    *)
(* value with the unit the value was given in, and its limits and step.    *)
(* A limit or step is the number read and the conversion the code applied  *)
(* to it.  The defaults the constructor fills in are not known here.       *)
(***************************************************************************)
Default == [default |-> TRUE]
DefaultStr == "<default>"

NewParam == [value |-> Default, unit |-> "", llim |-> Default, ulim |-> Default,
             step |-> Default]
NewStrParam == [NewParam EXCEPT !.value = DefaultStr]

\* parameters.ParameterSet(context='orbit')
NewOrbit ==
    [q \in {"dpdt", "dperdt", "ecc", "t0", "incl", "period", "per0", "phshift",
            "q", "sma", "long_an"} |-> NewParam]
    @@ [q \in {"c1label", "c2label", "label", "t0type"} |-> NewStrParam]

\* parameters.ParameterSet(context='component', label=...)
NewComponent(label) ==
    [q \in {"alb", "syncpar", "gravb", "pot", "teff", "abun"} |-> NewParam]
    @@ [q \in {"atm", "ld_func"} |-> NewStrParam]
    @@ [label      |-> [NewStrParam EXCEPT !.value = label],
        irradiator |-> [NewParam EXCEPT !.value = FALSE],
        ld_coeffs  |-> [NewParam EXCEPT !.value = <<>>]]

\* parameters.ParameterSet('globals')
NewGlobals == [vgamma |-> NewParam]

\* parameters.ParameterSet(context='mesh:wd')
NewMeshWd == [gridsize |-> NewParam]

\* parameters.ParameterSet(context='lcdep'), the n-th of the list `owner`.
\* The reference a new set carries is its own (no two sets share one).
NewLcdep(owner, n) ==
    [ref |-> "<ref of " \o owner \o "[" \o ToString(n) \o "]>",
     passband |-> DefaultStr, ld_coeffs |-> <<>>, pblum |-> Default,
     l3 |-> Default, atm |-> DefaultStr, alb |-> Default, ld_func |-> DefaultStr]

\* parameters.ParameterSet(context='rvdep')
NewRvdep(owner, n) ==
    [ref |-> "<ref of " \o owner \o "[" \o ToString(n) \o "]>",
     passband |-> DefaultStr, ld_coeffs |-> <<>>, atm |-> DefaultStr,
     alb |-> Default, ld_func |-> DefaultStr]

\* ps[q] = val  or  ps[q] = (val, unit): the set casts the text to a number.
SetValue(param, num, unit) == [param EXCEPT !.value = num, !.unit = unit]
\* ps.get_parameter(q).set_limits(ulim=...), set_limits(llim=...), set_step(step=...)
SetUlim(param, num, conv) == [param EXCEPT !.ulim = [n |-> num, conv |-> conv]]
SetLlim(param, num, conv) == [param EXCEPT !.llim = [n |-> num, conv |-> conv]]
SetStep(param, num, conv) == [param EXCEPT !.step = [n |-> num, conv |-> conv]]

\* ps[q] = (val, unit): the set converts the number from the unit it is given
\* with to the unit of the parameter.  The units of the parameters are not
\* fixed here: the conversions a tag can amount to, written as lines 131-192
\* write those of the limits.
TagConversions(unit) ==
    CASE unit = "d/d"   -> {"1", "*31557600"}
      [] unit = "rad/d" -> {"1", "/pi*180", "/pi*180*365.25"}
      [] unit = "rad"   -> {"1", "/pi*180"}
      [] OTHER          -> {"1"}

(***************************************************************************)
(* The routing table of lines 131-228 and 250-368: key stem, parameter set,*)
(* qualifier, the unit given with .VAL, and what .MIN/.MAX/.STEP multiply  *)
(* the number by.                                                          *)
(***************************************************************************)
Row(stem, ps, q, unit, conv) ==
    [stem |-> stem, ps |-> ps, q |-> q, unit |-> unit, conv |-> conv]

Scalars == {
    Row("phoebe_dpdt",   "orbit",   "dpdt",    "d/d",  "*31557600"),
    Row("phoebe_dperdt", "orbit",   "dperdt",  "rad/d", "*pi*365.25/180"),
    Row("phoebe_ecc",    "orbit",   "ecc",     "",     "1"),
    Row("phoebe_hjd0",   "orbit",   "t0",      "JD",   "1"),
    Row("phoebe_incl",   "orbit",   "incl",    "deg",  "1"),
    Row("phoebe_period", "orbit",   "period",  "d",    "1"),
    Row("phoebe_perr0",  "orbit",   "per0",    "rad",  "/pi*180"),
    Row("phoebe_pshift", "orbit",   "phshift", "",     "1"),
    Row("phoebe_rm",     "orbit",   "q",       "",     "1"),
    Row("phoebe_vga",    "globals", "vgamma",  "km/s", "1"),
    Row("phoebe_sma",    "orbit",   "sma",     "Rsol", "1"),
    Row("phoebe_alb1",   "comp1",   "alb",     "",     "1"),
    Row("phoebe_alb2",   "comp2",   "alb",     "",     "1"),
    Row("phoebe_f1",     "comp1",   "syncpar", "",     "1"),
    Row("phoebe_f2",     "comp2",   "syncpar", "",     "1"),
    Row("phoebe_grb1",   "comp1",   "gravb",   "",     "1"),
    Row("phoebe_grb2",   "comp2",   "gravb",   "",     "1"),
    Row("phoebe_pot1",   "comp1",   "pot",     "",     "1"),
    Row("phoebe_pot2",   "comp2",   "pot",     "",     "1"),
    Row("phoebe_teff1",  "comp1",   "teff",    "K",    "1"),
    Row("phoebe_teff2",  "comp2",   "teff",    "K",    "1"),
    Row("phoebe_met1",   "comp1",   "abun",    "",     "1"),
    Row("phoebe_met2",   "comp2",   "abun",    "",     "1") }

Suffixes == {".VAL", ".MAX", ".MIN", ".STEP"}

KeyStem(key) ==
    LET p == FindFrom(key, ".", 0) IN IF p < 0 THEN key ELSE Slice(key, 0, p)
KeySuffix(key) ==
    LET p == FindFrom(key, ".", 0) IN IF p < 0 THEN "" ELSE SliceFrom(key, p)

IsScalarKey(key) ==
    /\ KeySuffix(key) \in Suffixes
    /\ \E t \in Scalars : t.stem = KeyStem(key)

\* The outcome of a statement sequence: the locals, or an exception raised.
Ok(s) == [ok |-> TRUE, s |-> s]
Raised(s) == [ok |-> FALSE, s |-> s]

\* One branch of lines 131-228 / 250-368.
RouteScalar(s, key, val) ==
    LET t   == CHOOSE t \in Scalars : t.stem = KeyStem(key)
        suf == KeySuffix(key)
        x   == PyFloat(val)
        par == s[t.ps][t.q]
        new == CASE suf = ".VAL"  -> SetValue(par, x.v, t.unit)
                 [] suf = ".MAX"  -> SetUlim(par, x.v, t.conv)
                 [] suf = ".MIN"  -> SetLlim(par, x.v, t.conv)
                 [] suf = ".STEP" -> SetStep(par, x.v, t.conv)
    IN  IF x.ok THEN Ok([s EXCEPT ![t.ps] = [@ EXCEPT ![t.q] = new]]) ELSE Raised(s)

Bind(s, name) == [s EXCEPT !.defined = @ \cup {name}]
\* A faulty variant of IsBound, in which every local reads as bound (to the
\* value it starts with).
IsBound_Always(s, name) == TRUE
IsBound(s, name) == name \in s.defined

\* lst[idx] as Python resolves it: the 1-based position, or 0 for IndexError.
\* A negative idx counts from the end of the list.
ListPos(n, idx) ==
    IF idx >= 0 /\ idx < n THEN idx + 1
    ELSE IF idx < 0 /\ idx + n >= 0 THEN idx + n + 1
    ELSE 0

\* lcdepN[index][q] = v for each (list, qualifier, value) of writes, in one
\* statement group: NameError if index or the lists are unbound, IndexError
\* if index is outside them.
SetLc(s, writes) ==
    LET p  == ListPos(Len(s.lcdep1), s.index)
        w1 == {w \in writes : w[1] = "lcdep1"}
        w2 == {w \in writes : w[1] = "lcdep2"}
        Put(lst, ws) ==
            [lst EXCEPT ![p] =
                [q \in DOMAIN @ |->
                    IF \E w \in ws : w[2] = q
                    THEN (CHOOSE w \in ws : w[2] = q)[3] ELSE @[q]]]
    IN  IF IsBound(s, "lcno") /\ IsBound(s, "index") /\ p > 0
        THEN Ok([s EXCEPT !.lcdep1 = Put(@, w1), !.lcdep2 = Put(@, w2)])
        ELSE Raised(s)

\* Lines 123-129.
RouteCounts(s, key, val) ==
    LET n == PyInt(val)
    IN  IF ~n.ok THEN Raised(s)
        ELSE IF key = "phoebe_lcno"
        THEN Ok([Bind(s, "lcno") EXCEPT
                    !.lcno = n.v,
                    !.lcdep1 = [x \in 1..n.v |-> NewLcdep("lcdep1", x - 1)],
                    !.lcdep2 = [x \in 1..n.v |-> NewLcdep("lcdep2", x - 1)]])
        ELSE Ok([Bind(s, "rvno") EXCEPT !.rvno = n.v])

\* Lines 231-246 and 341-380: grid sizes, switches, limb-darkening law.
RouteChoice(s, key, val) ==
    LET x   == PyFloat(val)
        law == Slice(val, 2, -2)
        f   == CASE law = "Logarithmic law"   -> "logarithmic"
                 [] law = "Linear cosine law" -> "linear"
                 [] law = "Square root law"   -> "square root"
                 [] OTHER -> ""
        atm == IF Slice(val, 1, -1) = "1" THEN "kurucz" ELSE "blackbody"
    IN  CASE key = "phoebe_grid_finesize1" ->
                IF x.ok THEN Ok([s EXCEPT !.mesh1wd.gridsize = SetValue(@, x.v, "")])
                ELSE Raised(s)
          [] key = "phoebe_grid_finesize2" ->
                IF x.ok THEN Ok([s EXCEPT !.mesh2wd.gridsize = SetValue(@, x.v, "")])
                ELSE Raised(s)
          [] key = "phoebe_atm1_switch" ->
                Ok([s EXCEPT !.comp1.atm = SetValue(@, atm, "")])
          [] key = "phoebe_atm2_switch" ->
                Ok([s EXCEPT !.comp2.atm = SetValue(@, atm, "")])
          [] key = "phoebe_reffect_switch" ->
                \* both branches of lines 342-347 do the same
                Ok([s EXCEPT !.comp1.irradiator = SetValue(@, TRUE, ""),
                             !.comp2.irradiator = SetValue(@, TRUE, "")])
          [] key = "phoebe_ld_model" ->
                IF f = "" THEN Ok(s)
                ELSE Ok([s EXCEPT !.comp1.ld_func = SetValue(@, f, ""),
                                  !.comp2.ld_func = SetValue(@, f, "")])

ChoiceKeys == {"phoebe_grid_finesize1", "phoebe_grid_finesize2",
               "phoebe_atm1_switch", "phoebe_atm2_switch",
               "phoebe_reffect_switch", "phoebe_ld_model"}

\* Lines 383-390 and 400-403: a coefficient kept in a local of its own.
StagedKeys == {"phoebe_ld_xbol1", "phoebe_ld_xbol2", "phoebe_ld_ybol1",
               "phoebe_ld_ybol2", "phoebe_ld_lcy1", "phoebe_ld_lcy2",
               "phoebe_ld_rvx1", "phoebe_ld_rvx2"}

RouteStaged(s, key, val) ==
    LET full == PyFloat(val)
        cut  == PyFloat(Slice(val, 1, -2))
        name == SliceFrom(key, 7)        \* the local has the key's name less "phoebe_"
    IN  CASE key \in {"phoebe_ld_xbol1", "phoebe_ld_xbol2", "phoebe_ld_ybol1",
                      "phoebe_ld_ybol2"} ->
                IF full.ok THEN Ok([Bind(s, name) EXCEPT ![name] = full.v]) ELSE Raised(s)
          [] OTHER ->
                IF cut.ok THEN Ok([Bind(s, name) EXCEPT ![name] = cut.v]) ELSE Raised(s)

\* Lines 395-421: the light-curve keys, which write slot `index`.
LcKeys == {"phoebe_lc_filename", "phoebe_ld_lcx1.VAL", "phoebe_ld_lcx2.VAL",
           "phoebe_lc_filter", "phoebe_hla.VAL", "phoebe_cla.VAL", "phoebe_el3.VAL"}

RouteLc(s, key, val) ==
    LET full == PyFloat(val)
        cut  == PyFloat(Slice(val, 1, -2))
        name == Slice(val, 2, -2)
    IN  CASE key = "phoebe_lc_filename" ->
                IF name # "Undefined"
                THEN SetLc(s, {<<"lcdep1", "ref", name>>, <<"lcdep2", "ref", name>>})
                ELSE Ok(s)
          [] key = "phoebe_ld_lcx1.VAL" ->
                IF cut.ok /\ IsBound(s, "ld_lcy1")
                THEN SetLc(s, {<<"lcdep1", "ld_coeffs", <<cut.v, s.ld_lcy1>> >>})
                ELSE Raised(s)
          [] key = "phoebe_ld_lcx2.VAL" ->
                IF cut.ok /\ IsBound(s, "ld_lcy2")
                THEN SetLc(s, {<<"lcdep2", "ld_coeffs", <<cut.v, s.ld_lcy2>> >>})
                ELSE Raised(s)
          [] key = "phoebe_lc_filter" ->
                SetLc(s, {<<"lcdep1", "passband", val>>, <<"lcdep2", "passband", val>>})
          [] key = "phoebe_hla.VAL" ->
                IF full.ok THEN SetLc(s, {<<"lcdep1", "pblum", full.v>>}) ELSE Raised(s)
          [] key = "phoebe_cla.VAL" ->
                IF full.ok THEN SetLc(s, {<<"lcdep2", "pblum", full.v>>}) ELSE Raised(s)
          [] key = "phoebe_el3.VAL" ->
                IF full.ok
                THEN SetLc(s, {<<"lcdep1", "l3", full.v>>, <<"lcdep2", "l3", full.v>>})
                ELSE Raised(s)

\* Lines 424-468: the radial-velocity keys, which append to the accumulators.
RvKeys == {"phoebe_ld_rvy1", "phoebe_ld_rvy2", "phoebe_rv_sigma",
           "phoebe_rv_filter", "phoebe_rv_dep", "phoebe_rv_filename",
           "phoebe_rv_id", "phoebe_rv_indep", "phoebe_rv_indweight"}

RouteRv(s, key, val) ==
    LET full == PyFloat(val)
        cut  == PyFloat(Slice(val, 1, -2))
        name == Slice(val, 2, -2)
        kind == Slice(val, 11, -2)
    IN  CASE key = "phoebe_ld_rvy1" ->
                IF cut.ok /\ IsBound(s, "ld_rvx1")
                THEN Ok([s EXCEPT !.ld_coeffs1 = Append(@, <<s.ld_rvx1, cut.v>>)])
                ELSE Raised(s)
          [] key = "phoebe_ld_rvy2" ->
                IF cut.ok /\ IsBound(s, "ld_rvx2")
                THEN Ok([s EXCEPT !.ld_coeffs2 = Append(@, <<s.ld_rvx2, cut.v>>)])
                ELSE Raised(s)
          [] key = "phoebe_rv_sigma" ->
                IF full.ok THEN Ok([s EXCEPT !.rv_pbweight = Append(@, full.v)])
                ELSE Raised(s)
          [] key = "phoebe_rv_filter" ->
                Ok([s EXCEPT !.rv_pb = Append(@, val)])
          [] key = "phoebe_rv_dep" ->
                IF name = "Primary RV"
                THEN Ok([s EXCEPT !.rv_dep = Append(@, name), !.prim_rv = @ + 1])
                ELSE Ok([s EXCEPT !.rv_dep = Append(@, name), !.sec_rv = @ + 1])
          [] key = "phoebe_rv_filename" ->
                Ok([s EXCEPT !.rv_file = Append(@, name)])
          [] key = "phoebe_rv_id" ->
                Ok([s EXCEPT !.rvname = Append(@, val)])
          [] key = "phoebe_rv_indep" ->
                Ok([s EXCEPT !.rvtime =
                        Append(@, IF Slice(val, 2, 6) = "Time" THEN "time" ELSE "phase")])
          [] key = "phoebe_rv_indweight" ->
                Ok([s EXCEPT !.rvsigma =
                        Append(@, CASE kind = "deviation" -> "sigma"
                                    [] kind = "weight"    -> "weight"
                                    [] OTHER              -> "undefined")])

RecognizedKeys ==
    {"phoebe_lcno", "phoebe_rvno"} \cup ChoiceKeys \cup StagedKeys \cup LcKeys
    \cup RvKeys \cup {t.stem \o suf : t \in Scalars, suf \in Suffixes}

\* The chain of lines 123-468 for one (key, val): a key matches at most one
\* branch, and a key that matches none changes nothing.
Route(s, key, val) ==
    CASE key \in {"phoebe_lcno", "phoebe_rvno"} -> RouteCounts(s, key, val)
      [] IsScalarKey(key)                        -> RouteScalar(s, key, val)
      [] key \in ChoiceKeys                      -> RouteChoice(s, key, val)
      [] key \in StagedKeys                      -> RouteStaged(s, key, val)
      [] key \in LcKeys                          -> RouteLc(s, key, val)
      [] key \in RvKeys                          -> RouteRv(s, key, val)
      [] OTHER                                   -> Ok(s)

\* The body of the for loop, lines 72-468, on one line of the file.
ProcessLine(s, line) ==
    IF CharAt(line, 0) = "#" THEN Ok(s)
    ELSE IF ~SplitsInTwo(line) THEN Ok(s)
    ELSE LET key0 == KeyOf(line)
             s1   == IF HasBracket(key0)
                     THEN [Bind(s, "index") EXCEPT !.index = BracketIndex(key0)]
                     ELSE s
             val  == PassbandRemap(ValOf(line))
             key  == StripKey(StripBracket(key0))
         IN  IF key.ok THEN Route(s1, key.key, val) ELSE Raised(s1)

(***************************************************************************)
(* The call legacy_to_phoebe(inputfile, create_body, create_bundle, mesh)  *)
(* as a state machine: one step per line of the file, one for the          *)
(* statements between the two loops, one per iteration of the reduction    *)
(* loop, one for the assembly of the result.                               *)
(***************************************************************************)

\* The locals of the line loop, as one record.
Locals ==
    [defined |-> defined, index |-> index, lcno |-> lcno, rvno |-> rvno,
     orbit |-> orbit, comp1 |-> comp1, comp2 |-> comp2, globals |-> globals,
     mesh1wd |-> mesh1wd, mesh2wd |-> mesh2wd, lcdep1 |-> lcdep1,
     lcdep2 |-> lcdep2, ld_xbol1 |-> ld_xbol1, ld_xbol2 |-> ld_xbol2,
     ld_ybol1 |-> ld_ybol1, ld_ybol2 |-> ld_ybol2, ld_lcy1 |-> ld_lcy1,
     ld_lcy2 |-> ld_lcy2, ld_rvx1 |-> ld_rvx1, ld_rvx2 |-> ld_rvx2,
     rv_dep |-> rv_dep, prim_rv |-> prim_rv, sec_rv |-> sec_rv, rv_pb |-> rv_pb,
     rv_pbweight |-> rv_pbweight, ld_coeffs1 |-> ld_coeffs1,
     ld_coeffs2 |-> ld_coeffs2, rv_file |-> rv_file, rvtime |-> rvtime,
     rvsigma |-> rvsigma, rvname |-> rvname]

SetLocals(s) ==
    /\ defined' = s.defined /\ index' = s.index /\ lcno' = s.lcno /\ rvno' = s.rvno
    /\ orbit' = s.orbit /\ comp1' = s.comp1 /\ comp2' = s.comp2
    /\ globals' = s.globals /\ mesh1wd' = s.mesh1wd /\ mesh2wd' = s.mesh2wd
    /\ lcdep1' = s.lcdep1 /\ lcdep2' = s.lcdep2
    /\ ld_xbol1' = s.ld_xbol1 /\ ld_xbol2' = s.ld_xbol2
    /\ ld_ybol1' = s.ld_ybol1 /\ ld_ybol2' = s.ld_ybol2
    /\ ld_lcy1' = s.ld_lcy1 /\ ld_lcy2' = s.ld_lcy2
    /\ ld_rvx1' = s.ld_rvx1 /\ ld_rvx2' = s.ld_rvx2
    /\ rv_dep' = s.rv_dep /\ prim_rv' = s.prim_rv /\ sec_rv' = s.sec_rv
    /\ rv_pb' = s.rv_pb /\ rv_pbweight' = s.rv_pbweight
    /\ ld_coeffs1' = s.ld_coeffs1 /\ ld_coeffs2' = s.ld_coeffs2
    /\ rv_file' = s.rv_file /\ rvtime' = s.rvtime /\ rvsigma' = s.rvsigma
    /\ rvname' = s.rvname

\* A faulty variant of InitLocals, in which the two counts start bound to 0.
InitLocals_Defaulted ==
    /\ defined = {"lcno", "rvno"} /\ index = 0 /\ lcno = 0 /\ rvno = 0
    /\ orbit = NewOrbit
    /\ comp1 = NewComponent("myprimary") /\ comp2 = NewComponent("mysecondary")
    /\ globals = NewGlobals /\ mesh1wd = NewMeshWd /\ mesh2wd = NewMeshWd
    /\ lcdep1 = <<>> /\ lcdep2 = <<>>
    /\ ld_xbol1 = Num(0, 0) /\ ld_xbol2 = Num(0, 0)
    /\ ld_ybol1 = Num(0, 0) /\ ld_ybol2 = Num(0, 0)
    /\ ld_lcy1 = Num(0, 0) /\ ld_lcy2 = Num(0, 0)
    /\ ld_rvx1 = Num(0, 0) /\ ld_rvx2 = Num(0, 0)
    /\ rv_dep = <<>> /\ prim_rv = 0 /\ sec_rv = 0 /\ rv_pb = <<>>
    /\ rv_pbweight = <<>> /\ ld_coeffs1 = <<>> /\ ld_coeffs2 = <<>>
    /\ rv_file = <<>> /\ rvtime = <<>> /\ rvsigma = <<>> /\ rvname = <<>>

\* Lines 39-66: the state before the first line is read.
InitLocals ==
    /\ defined = {} /\ index = 0 /\ lcno = 0 /\ rvno = 0
    /\ orbit = NewOrbit
    /\ comp1 = NewComponent("myprimary") /\ comp2 = NewComponent("mysecondary")
    /\ globals = NewGlobals /\ mesh1wd = NewMeshWd /\ mesh2wd = NewMeshWd
    /\ lcdep1 = <<>> /\ lcdep2 = <<>>
    /\ ld_xbol1 = Num(0, 0) /\ ld_xbol2 = Num(0, 0)
    /\ ld_ybol1 = Num(0, 0) /\ ld_ybol2 = Num(0, 0)
    /\ ld_lcy1 = Num(0, 0) /\ ld_lcy2 = Num(0, 0)
    /\ ld_rvx1 = Num(0, 0) /\ ld_rvx2 = Num(0, 0)
    /\ rv_dep = <<>> /\ prim_rv = 0 /\ sec_rv = 0 /\ rv_pb = <<>>
    /\ rv_pbweight = <<>> /\ ld_coeffs1 = <<>> /\ ld_coeffs2 = <<>>
    /\ rv_file = <<>> /\ rvtime = <<>> /\ rvsigma = <<>> /\ rvname = <<>>

NotBuilt == [called |-> FALSE, bundled |-> FALSE, meshread |-> FALSE,
             mesh1 |-> Default, mesh2 |-> Default,
             obs1given |-> FALSE, obs2given |-> FALSE]
NoResult == "<none>"

\* One iteration of the for loop over the lines (lines 71-468).
ReadLine ==
    /\ pc = "lines"
    /\ pos <= Len(file)
    /\ \E r \in {ProcessLine(Locals, file[pos])} :
           IF r.ok
           THEN /\ SetLocals(r.s)
                /\ pos' = pos + 1
                /\ pc' = pc
           ELSE /\ pc' = "failed"
                /\ UNCHANGED <<pos, lineVars>>
    /\ UNCHANGED <<argVars, reduceVars, built, result, ncalls>>
    /\ UNCHANGED <<sideVars, computeVars>>

\* Lines 477-486: the copy loop over the light-curve dependencies.
CopyToLcdep(lst, comp) ==
    [x \in DOMAIN lst |->
        [lst[x] EXCEPT !.atm = comp.atm.value, !.alb = comp.alb.value,
                       !.ld_func = comp.ld_func.value]]
\* CopyRefs without line 486: the refs of component 2 are left as they are.
\* A faulty variant of CopyRefs, which leaves out line 486.
CopyRefs_Dropped(lst2, lst1) == lst2
CopyRefs(lst2, lst1) ==
    [x \in DOMAIN lst2 |-> [lst2[x] EXCEPT !.ref = lst1[x].ref]]

\* Lines 470-499: what runs between the two loops.  ld_xbol1 .. ld_ybol2,
\* lcno and rvno are read here, bound or not.
EndOfLines ==
    /\ pc = "lines"
    /\ pos > Len(file)
    /\ IF {"ld_xbol1", "ld_ybol1", "ld_xbol2", "ld_ybol2", "lcno", "rvno"}
            \subseteq defined
       THEN /\ orbit' = [orbit EXCEPT !.long_an = SetValue(@, Num(0, 0), "")]
            /\ comp1' = [comp1 EXCEPT
                            !.ld_coeffs = SetValue(@, <<ld_xbol1, ld_ybol1>>, "")]
            /\ comp2' = [comp2 EXCEPT
                            !.ld_coeffs = SetValue(@, <<ld_xbol2, ld_ybol2>>, "")]
            /\ lcdep1' = CopyToLcdep(lcdep1, comp1)
            /\ lcdep2' = CopyRefs(CopyToLcdep(lcdep2, comp2), lcdep1)
            /\ rvdep1' = [x \in 1..prim_rv |-> NewRvdep("rvdep1", x - 1)]
            /\ rvdep2' = [x \in 1..sec_rv |-> NewRvdep("rvdep2", x - 1)]
            /\ i' = 0 /\ j' = 0 /\ k' = 0 /\ l' = 0 /\ m' = 0
            /\ obsrv1' = <<>> /\ obsrv2' = <<>>
            /\ pc' = "reduce"
       ELSE /\ pc' = "failed"
            /\ UNCHANGED <<orbit, comp1, comp2, lcdep1, lcdep2, reduceVars>>
    /\ UNCHANGED <<pos, argVars, defined, index, lcno, rvno, globals, mesh1wd,
                   mesh2wd, ld_xbol1, ld_xbol2, ld_ybol1, ld_ybol2, ld_lcy1,
                   ld_lcy2, ld_rvx1, ld_rvx2, rv_dep, prim_rv, sec_rv, rv_pb,
                   rv_pbweight, ld_coeffs1, ld_coeffs2, rv_file, rvtime,
                   rvsigma, rvname, built, result, ncalls>>
    /\ UNCHANGED <<sideVars, computeVars>>

\* np.loadtxt(name, unpack=True): the number of columns of the data file, 0
\* when the file cannot be read.  The data files the model's runs can name:
DataColumns(name) ==
    CASE name = "rv2.dat" -> 2
      [] name = "rv3.dat" -> 3
      [] OTHER -> 0

\* A faulty variant of ObsRecord, which numbers the ref with the star's
\* observation counter (l or m).
ObsRecord_ByObsCounter(ii, ref) ==
    LET two   == rvsigma[ii] = "undefined"
        third == IF two THEN "none"
                 ELSE IF rvtime[ii] = "time"
                      THEN (IF rvsigma[ii] = "sigma" THEN "sigma" ELSE "weight")
                      ELSE (IF rvsigma[ii] = "weight" THEN "weight" ELSE "sigma")
    IN  [ref |-> IF rv_dep[ii] = "Primary RV" THEN "primaryrv_" \o ToString(l)
                 ELSE "secondaryrv_" \o ToString(m), filename |-> rv_file[ii],
         first |-> IF rvtime[ii] = "time" THEN "time" ELSE "phase",
         third |-> third,
         columns |-> IF two THEN <<rvtime[ii], "rv">>
                     ELSE <<rvtime[ii], "rv", rvsigma[ii]>>,
         statweight |-> rv_pbweight[ii], user_components |-> rvname[ii]]

\* A faulty variant of ObsRecord, which stores the third column of a phase
\* dataset under the other name.
ObsRecord_PhaseSwapped(ii, ref) ==
    LET two   == rvsigma[ii] = "undefined"
        third == IF two THEN "none"
                 ELSE IF rvtime[ii] = "time"
                      THEN (IF rvsigma[ii] = "sigma" THEN "sigma" ELSE "weight")
                      ELSE (IF rvsigma[ii] = "weight" THEN "sigma" ELSE "weight")
    IN  [ref |-> ref, filename |-> rv_file[ii],
         first |-> IF rvtime[ii] = "time" THEN "time" ELSE "phase",
         third |-> third,
         columns |-> IF two THEN <<rvtime[ii], "rv">>
                     ELSE <<rvtime[ii], "rv", rvsigma[ii]>>,
         statweight |-> rv_pbweight[ii], user_components |-> rvname[ii]]

\* datasets.RVDataSet(...) as built in lines 512-544 (and 556-588) for
\* position ii (1-based) of the accumulators.
ObsRecord(ii, ref) ==
    LET two   == rvsigma[ii] = "undefined"
        third == IF two THEN "none"
                 ELSE IF rvtime[ii] = "time"
                      THEN (IF rvsigma[ii] = "sigma" THEN "sigma" ELSE "weight")
                      ELSE (IF rvsigma[ii] = "weight" THEN "weight" ELSE "sigma")
    IN  [ref |-> ref, filename |-> rv_file[ii],
         first |-> IF rvtime[ii] = "time" THEN "time" ELSE "phase",
         third |-> third,
         columns |-> IF two THEN <<rvtime[ii], "rv">>
                     ELSE <<rvtime[ii], "rv", rvsigma[ii]>>,
         statweight |-> rv_pbweight[ii], user_components |-> rvname[ii]]

\* Whether the statements that build the observation of position ii run
\* without IndexError, IOError or ValueError.
ObsLoads(ii) ==
    /\ ii <= Len(rvsigma) /\ ii <= Len(rvtime)
    /\ ii <= Len(rv_pbweight) /\ ii <= Len(rvname)
    /\ DataColumns(rv_file[ii]) = IF rvsigma[ii] = "undefined" THEN 2 ELSE 3

\* The dependency written at lines 506-511 (and 550-555).
RvRecord(dep, ii, coeffs, comp, ref) ==
    [dep EXCEPT !.ld_coeffs = coeffs[ii], !.passband = rv_pb[ii], !.ref = ref,
                !.atm = comp.atm.value, !.alb = comp.alb.value,
                !.ld_func = comp.ld_func.value]

\* RvRef numbering the records from 1.
\* A faulty variant of RvRef, which counts from 1.
RvRef_OneBased(prefix, n) == prefix \o ToString(n + 1)
RvRef(prefix, n) == prefix \o ToString(n)

\* A faulty variant of ReduceStep, without line 545: the primary's
\* observations are not counted.
ReduceStep_ObsUncounted ==
    /\ pc = "reduce"
    /\ i < rvno
    /\ LET ii      == i + 1
           primary == rv_dep[ii] = "Primary RV"
           hasfile == rv_file[ii] # "Undefined"
           fine    == /\ ii <= Len(rv_dep)
                      /\ ii <= Len(rv_pb) /\ ii <= Len(rv_file)
                      /\ IF primary
                         THEN j < Len(rvdep1) /\ ii <= Len(ld_coeffs1)
                         ELSE k < Len(rvdep2) /\ ii <= Len(ld_coeffs2)
                      /\ hasfile => ObsLoads(ii)
       IN  IF ~fine
           THEN pc' = "failed" /\ UNCHANGED reduceVars
           ELSE /\ pc' = pc
                /\ i' = i + 1
                /\ IF primary
                   THEN /\ rvdep1' = [rvdep1 EXCEPT ![j + 1] =
                               RvRecord(@, ii, ld_coeffs1, comp1, RvRef("primaryrv_", j))]
                        /\ obsrv1' = IF hasfile
                                     THEN Append(obsrv1, ObsRecord(ii, RvRef("primaryrv_", j)))
                                     ELSE obsrv1
                        /\ l' = l
                        /\ j' = j + 1
                        /\ UNCHANGED <<rvdep2, obsrv2, k, m>>
                   ELSE /\ rvdep2' = [rvdep2 EXCEPT ![k + 1] =
                               RvRecord(@, ii, ld_coeffs2, comp2, RvRef("secondaryrv_", k))]
                        /\ obsrv2' = IF hasfile
                                     THEN Append(obsrv2, ObsRecord(ii, RvRef("secondaryrv_", k)))
                                     ELSE obsrv2
                        /\ m' = IF hasfile THEN m + 1 ELSE m
                        /\ k' = k + 1
                        /\ UNCHANGED <<rvdep1, obsrv1, j, l>>
    /\ UNCHANGED <<pos, argVars, lineVars, built, result, ncalls>>
    /\ UNCHANGED <<sideVars, computeVars>>

\* One iteration of the reduction loop, lines 500-591, for i.
ReduceStep ==
    /\ pc = "reduce"
    /\ i < rvno
    /\ LET ii      == i + 1
           primary == rv_dep[ii] = "Primary RV"
           hasfile == rv_file[ii] # "Undefined"
           fine    == /\ ii <= Len(rv_dep)
                      /\ ii <= Len(rv_pb) /\ ii <= Len(rv_file)
                      /\ IF primary
                         THEN j < Len(rvdep1) /\ ii <= Len(ld_coeffs1)
                         ELSE k < Len(rvdep2) /\ ii <= Len(ld_coeffs2)
                      /\ hasfile => ObsLoads(ii)
       IN  IF ~fine
           THEN pc' = "failed" /\ UNCHANGED reduceVars
           ELSE /\ pc' = pc
                /\ i' = i + 1
                /\ IF primary
                   THEN /\ rvdep1' = [rvdep1 EXCEPT ![j + 1] =
                               RvRecord(@, ii, ld_coeffs1, comp1, RvRef("primaryrv_", j))]
                        /\ obsrv1' = IF hasfile
                                     THEN Append(obsrv1, ObsRecord(ii, RvRef("primaryrv_", j)))
                                     ELSE obsrv1
                        /\ l' = IF hasfile THEN l + 1 ELSE l
                        /\ j' = j + 1
                        /\ UNCHANGED <<rvdep2, obsrv2, k, m>>
                   ELSE /\ rvdep2' = [rvdep2 EXCEPT ![k + 1] =
                               RvRecord(@, ii, ld_coeffs2, comp2, RvRef("secondaryrv_", k))]
                        /\ obsrv2' = IF hasfile
                                     THEN Append(obsrv2, ObsRecord(ii, RvRef("secondaryrv_", k)))
                                     ELSE obsrv2
                        /\ m' = IF hasfile THEN m + 1 ELSE m
                        /\ k' = k + 1
                        /\ UNCHANGED <<rvdep1, obsrv1, j, l>>
    /\ UNCHANGED <<pos, argVars, lineVars, built, result, ncalls>>
    /\ UNCHANGED <<sideVars, computeVars>>

\* Lines 609-618: the meshes handed to the construction collaborator.
MeshFor(meshwd) ==
    IF mesh = "marching"
    THEN [context |-> "mesh:marching",
          delta |-> <<"10**(-0.98359345*log10(gridsize)+0.4713824)",
                      meshwd.gridsize.value>>]
    ELSE [context |-> "mesh:wd", gridsize |-> meshwd.gridsize.value]

\* Lines 608-642: universe.BinaryRocheStar, universe.BodyBag and Bundle.
Build ==
    [called |-> TRUE, bundled |-> create_bundle, meshread |-> TRUE,
     mesh1 |-> MeshFor(mesh1wd), mesh2 |-> MeshFor(mesh2wd),
     obs1given |-> prim_rv # 0, obs2given |-> sec_rv # 0]

\* Returned with the test of create_body first.
\* A faulty variant of Returned, which tests create_body first.
Returned_BodyFirst ==
    IF create_body THEN "body"
    ELSE IF create_bundle THEN "bundle"
    ELSE "tuple"
\* Lines 640-649: which value is returned.
Returned ==
    IF create_bundle THEN "bundle"
    ELSE IF create_body THEN "body"
    ELSE "tuple"

\* Lines 594-649, once the reduction loop has ended.
Assemble ==
    /\ pc = "reduce"
    /\ i >= rvno
    /\ orbit' = [orbit EXCEPT
                    !.c1label = SetValue(@, comp1.label.value, ""),
                    !.c2label = SetValue(@, comp2.label.value, ""),
                    !.label = SetValue(@, "myorbit", ""),
                    !.t0type = SetValue(@, "superior conjunction", "")]
    /\ built' = IF create_bundle \/ create_body THEN Build ELSE built
    /\ result' = Returned
    /\ pc' = "done"
    /\ UNCHANGED <<pos, argVars, defined, index, lcno, rvno, comp1, comp2,
                   globals, mesh1wd, mesh2wd, lcdep1, lcdep2, ld_xbol1,
                   ld_xbol2, ld_ybol1, ld_ybol2, ld_lcy1, ld_lcy2, ld_rvx1,
                   ld_rvx2, rv_dep, prim_rv, sec_rv, rv_pb, rv_pbweight,
                   ld_coeffs1, ld_coeffs2, rv_file, rvtime, rvsigma, rvname,
                   reduceVars, ncalls>>
    /\ UNCHANGED <<sideVars, computeVars>>

(***************************************************************************)
(* from_supconj_to_perpass(orbit), lines 652-671.                          *)
(***************************************************************************)
IsNum(v) == DOMAIN v = {"m", "e"}

\* per0/(2*np.pi).  Exact for per0 = 0; otherwise the quotient to three
\* decimals, with 2*pi taken as 6.2832.
PerTwoPi(per0) ==
    LET num == per0.m * Pow10(7 - per0.e)
        a   == IF num < 0 THEN 0 - num ELSE num
        q   == (2 * a + 62832) \div (2 * 62832)
    IN  IF per0.m = 0 THEN Num(0, 0)
        ELSE IF num < 0 THEN Norm(0 - q, 3) ELSE Norm(q, 3)

\* PerpassEpoch with the quarter period added.
\* A faulty variant of PerpassEpoch, which adds the quarter period.
PerpassEpoch_Plus(t_supconj, phshift, P, per0) ==
    NumAdd(t_supconj,
           NumMul(NumAdd(NumAdd(phshift, Num(25, 2)), PerTwoPi(per0)), P))
\* t0 = t_supconj + (phshift - 0.25 + per0/(2*np.pi))*P
PerpassEpoch(t_supconj, phshift, P, per0) ==
    NumAdd(t_supconj,
           NumMul(NumAdd(NumSub(phshift, Num(25, 2)), PerTwoPi(per0)), P))

from_supconj_to_perpass(orb) ==
    [orb EXCEPT !.t0.value = PerpassEpoch(orb.t0.value, orb.phshift.value,
                                          orb.period.value, orb.per0.value)]

\* The number of calls made on a returned orbit is bounded by MaxCalls.
MaxCalls == 2

\* A caller applies the transform to the orbit of the returned tuple.
CallFromSupconjToPerpass ==
    /\ pc = "done"
    /\ result = "tuple"
    /\ ncalls < MaxCalls
    /\ \A q \in {"t0", "phshift", "period", "per0"} : IsNum(orbit[q].value)
    /\ orbit' = from_supconj_to_perpass(orbit)
    /\ ncalls' = ncalls + 1
    /\ UNCHANGED <<pc, pos, argVars, defined, index, lcno, rvno, comp1, comp2,
                   globals, mesh1wd, mesh2wd, lcdep1, lcdep2, ld_xbol1,
                   ld_xbol2, ld_ybol1, ld_ybol2, ld_lcy1, ld_lcy2, ld_rvx1,
                   ld_rvx2, rv_dep, prim_rv, sec_rv, rv_pb, rv_pbweight,
                   ld_coeffs1, ld_coeffs2, rv_file, rvtime, rvsigma, rvname,
                   reduceVars, built, result>>
    /\ UNCHANGED <<sideVars, computeVars>>

(***************************************************************************)
(* The input files of the model, written as a legacy file is written:      *)
(* "key = value\n", text values in double quotes, numbers with six         *)
(* decimals, dataset keys with a bracketed number.                         *)
(***************************************************************************)
KV(key, value) == key \o " = " \o value \o "\n"
Q(x) == "\"" \o x \o "\""
Br(stem, b) == stem \o "[" \o ToString(b) \o "]"

RECURSIVE Flatten(_)
Flatten(ss) == IF ss = <<>> THEN <<>> ELSE Head(ss) \o Flatten(Tail(ss))

\* The largest phoebe_lcno and the largest number of RV datasets of a file.
MaxLc == 2
MaxRv == 2

BolBlock ==
    <<KV("phoebe_ld_xbol1", "0.500000"), KV("phoebe_ld_ybol1", "0.250000"),
      KV("phoebe_ld_xbol2", "0.400000"), KV("phoebe_ld_ybol2", "0.200000")>>

OrbitBlock(t0, pshift, period, perr0) ==
    <<KV("phoebe_hjd0.VAL", t0), KV("phoebe_period.VAL", period),
      KV("phoebe_ecc.VAL", "0.100000"), KV("phoebe_incl.VAL", "85.000000"),
      KV("phoebe_pshift.VAL", pshift), KV("phoebe_perr0.VAL", perr0)>>

DefaultOrbit == OrbitBlock("2450000.000000", "0.000000", "10.000000", "0.000000")

\* The lines of light-curve dataset b: its file name and its passband.
LcLines(b, fname, band) ==
    <<KV(Br("phoebe_lc_filename", b), Q(fname)),
      KV(Br("phoebe_lc_filter", b), Q(band)),
      KV(Br("phoebe_hla", b) \o ".VAL", "12.566371"),
      KV(Br("phoebe_cla", b) \o ".VAL", "6.283185"),
      KV(Br("phoebe_el3", b) \o ".VAL", "0.000000"),
      KV(Br("phoebe_ld_lcy1", b), "0.250000"),
      KV(Br("phoebe_ld_lcx1", b) \o ".VAL", "0.500000"),
      KV(Br("phoebe_ld_lcy2", b), "0.200000"),
      KV(Br("phoebe_ld_lcx2", b) \o ".VAL", "0.400000")>>

\* names[b] is the file name of dataset b ("Undefined" for none).
LcBlock(names) ==
    <<KV("phoebe_lcno", ToString(Len(names)))>>
    \o Flatten([b \in 1..Len(names) |-> LcLines(b, names[b], "Johnson:V")])

LcNames(b) == {"Undefined", "lc" \o ToString(b) \o ".dat", "shared.dat"}

\* The lines of one RV dataset with bracket number b, d-th in the file.
RvLines(b, d, p) ==
    <<KV(Br("phoebe_rv_id", b), Q("rv" \o ToString(d))),
      KV(Br("phoebe_rv_dep", b), Q(p.tag)),
      KV(Br("phoebe_rv_filename", b), Q(p.fname)),
      KV(Br("phoebe_rv_sigma", b), ToString(d) \o ".000000"),
      KV(Br("phoebe_rv_filter", b), Q(p.band)),
      KV(Br("phoebe_rv_indep", b), Q(p.indep)),
      KV(Br("phoebe_rv_indweight", b), Q(p.weight)),
      KV(Br("phoebe_ld_rvx1", b), "0.5" \o ToString(d) \o "0000"),
      KV(Br("phoebe_ld_rvy1", b), "0.2" \o ToString(d) \o "0000"),
      KV(Br("phoebe_ld_rvx2", b), "0.4" \o ToString(d) \o "0000"),
      KV(Br("phoebe_ld_rvy2", b), "0.1" \o ToString(d) \o "0000")>>

Profile(tag, fname, band, indep, weight) ==
    [tag |-> tag, fname |-> fname, band |-> band, indep |-> indep, weight |-> weight]

Profiles == {
    Profile("Primary RV",   "Undefined", "Johnson:V", "Time (HJD)", "Unavailable"),
    Profile("Secondary RV", "Undefined", "Cousins:R", "Time (HJD)", "Unavailable"),
    Profile("Primary RV",   "rv2.dat",   "Johnson:B", "Time (HJD)", "Unavailable"),
    Profile("Secondary RV", "rv3.dat",   "Johnson:V", "Phase", "Standard deviation"),
    Profile("Primary RV",   "rv3.dat",   "Kepler:mean", "Time (HJD)", "Standard weight") }

\* How the datasets are numbered and laid out: numbered 1, 2, .. or 3, 5, ..;
\* dataset after dataset, or key after key.
Styles == {<<"natural", "bydataset">>, <<"gapped", "bydataset">>, <<"natural", "bykey">>}

Bracket(style, d) == IF style[1] = "natural" THEN d ELSE 2 * d + 1

RvBlock(ps, style) ==
    LET n    == Len(ps)
        w    == Len(RvLines(1, 1, ps[1]))
        L(d) == RvLines(Bracket(style, d), d, ps[d])
    IN  IF n = 0 THEN <<>>
        ELSE IF style[2] = "bydataset"
        THEN [x \in 1..(w * n) |-> L(((x - 1) \div w) + 1)[((x - 1) % w) + 1]]
        ELSE [x \in 1..(w * n) |-> L(((x - 1) % n) + 1)[((x - 1) \div n) + 1]]

Head0(lcn, rvn) == BolBlock \o <<KV("phoebe_lcno", ToString(lcn)), KV("phoebe_rvno", ToString(rvn))>>

\* Files with RV datasets: every sequence of at most MaxRv profiles, declared
\* with the right count, one less or one more.
RvFiles ==
    UNION { UNION { { Head0(0, rvn) \o RvBlock(ps, style) \o DefaultOrbit :
                        rvn \in {c \in {Len(ps) - 1, Len(ps), Len(ps) + 1} : c >= 0},
                        style \in IF Len(ps) = 0 THEN {<<"natural", "bydataset">>} ELSE Styles }
                    : ps \in [1..n -> Profiles] }
            : n \in 0..MaxRv }

\* Files with light curves: every choice of file names for 0..MaxLc datasets.
LcFiles ==
    UNION { { BolBlock \o LcBlock(names) \o <<KV("phoebe_rvno", "0")>> \o DefaultOrbit :
                names \in {f \in [1..n -> UNION {LcNames(b) : b \in 1..n}] :
                             \A b \in 1..n : f[b] \in LcNames(b)} }
            : n \in 0..MaxLc }
    \cup { BolBlock \o LcBlock(<<"a.dat", "b.dat">>) \o LcBlock(<<"c.dat">>)
           \o <<KV("phoebe_rvno", "0")>>,
           BolBlock \o <<KV("phoebe_lcno", "2")>> \o LcLines(2, "b.dat", "Johnson:V")
           \o LcLines(1, "a.dat", "Johnson:B") \o <<KV("phoebe_rvno", "0")>> }

\* The legacy passband names (and a few values that are no passband).
RawValues ==
    {Q(inst \o ":" \o band) : inst \in {"Johnson", "Cousins", "Stromgren"},
                              band \in {"U", "B", "V", "R", "y"}}
    \cup {Q("Corot:sismo"), Q("Corot:exo"), Q("Kepler:mean"), Q("IRAC:ch1"),
          Q("IRAC:ch2"), Q("MOST:default"), Q("Stromgren:Hbeta_narrow"),
          Q("Stromgren:Hbeta_wide"), Q("Bolometric:3000A-10000A"),
          Q("Hipparcos:BT"), Q("Hipparcos:VT"), Q("Hipparcos:Hp"),
          Q("Sloan:g'"), Q("Sloan:u'"), Q("Sloan:z'"),
          Q("Bessell IR:J"), Q("Bessell IR:K"), Q("Bessell IR:L"),
          Q("Bessell IR:L'"), Q("Bessell:V"),
          "KEPLER.V", "COROT.SIS", "TYCHO.BT", "OPEN.BOL", "SDSS.G",
          "BESSEL.LPRIME", "BESSEL.J", "JOHNSON.V", "IRAC.36", "MOST.V",
          "STROMGREN.HBN", Q("KEPLER.V"), Q("Undefined"), "1"}

\* Files with one light curve whose passband is one of RawValues.
BandFiles ==
    { BolBlock \o <<KV("phoebe_lcno", "1"), KV(Br("phoebe_lc_filter", 1), raw),
                    KV("phoebe_rvno", "0")>> : raw \in RawValues }

\* Files whose orbit block varies.
OrbitFiles ==
    { Head0(0, 0) \o OrbitBlock("2450000.000000", ps, per, w) :
        ps \in {"0.000000", "0.100000", "-0.050000"},
        per \in {"10.000000", "2.000000"},
        w \in {"0.000000", "1.570800"} }

\* The file of the end-to-end case: one light curve, no RV, the orbit block.
MinimalFile ==
    <<KV("phoebe_lcno", "1"),
      KV(Br("phoebe_lc_filter", 1), Q("Johnson:V")),
      KV(Br("phoebe_hla", 1) \o ".VAL", "12.566371"),
      KV(Br("phoebe_el3", 1) \o ".VAL", "0.000000"),
      KV("phoebe_rvno", "0")>> \o DefaultOrbit

\* Lines the tokenizer or the router has to cope with.
OddLines ==
    {"this line has no separator\n", "\n", "phoebe_lcno 7\n", "[2]\n",
     "# phoebe_lcno = 7\n", "phoebe_lcno = 1 = 2\n", "a == b\n",
     " = 5\n", "   = 5\n", "[1] = 5\n",
     "phoebe_name = \"system\"\n", "phoebe_unknown[2] = 1\n",
     "phoebe_lc_id[2] = \"Kepler:mean\"\n", " phoebe_lcno = 7\n",
     "phoebe_ecc.ADJ = 1\n",
     "phoebe_lc_filter = \"Cousins:R\"\n", "phoebe_hla.VAL = 9.000000\n",
     "phoebe_rv_id[1] = \"a=b\"\n"}

InsertAt(f, p, line) == SubSeq(f, 1, p) \o <<line>> \o SubSeq(f, p + 1, Len(f))

TokBase ==
    Head0(1, 1)
    \o <<KV(Br("phoebe_lc_filename", 1), Q("lc1.dat")),
         KV(Br("phoebe_ld_lcy1", 1), "0.250000"),
         KV(Br("phoebe_ld_lcx1", 1) \o ".VAL", "0.500000")>>
    \o RvLines(1, 1, Profile("Primary RV", "rv2.dat", "Johnson:V", "Time (HJD)", "Unavailable"))
    \o <<KV("phoebe_period.VAL", "10.000000")>>

\* TokBase with one odd line put in at any position.
TokFiles == { InsertAt(TokBase, p, line) : p \in 0..Len(TokBase), line \in OddLines }

\* Files for the three result shapes: no RV, primary only, secondary only, both.
FlagFiles ==
    { Head0(0, Len(ps)) \o <<KV("phoebe_grid_finesize1", "20"),
                             KV("phoebe_grid_finesize2", "30")>>
      \o RvBlock(ps, <<"natural", "bydataset">>) :
        ps \in {<<>>} \cup [1..1 -> Profiles] }

Flags(body, bundle, msh) == [create_body |-> body, create_bundle |-> bundle, mesh |-> msh]
DefaultFlags == Flags(FALSE, FALSE, "wd")
AllFlags == {Flags(b, u, msh) : b \in BOOLEAN, u \in BOOLEAN, msh \in {"wd", "marching"}}

\* Files that lack a count line: no phoebe_lcno before the keys of a light
\* curve, no phoebe_rvno with the keys of an RV dataset, or neither count.
NoCountFiles ==
    { BolBlock \o LcLines(1, name, "Johnson:V") \o <<KV("phoebe_rvno", "0")>>
      \o DefaultOrbit : name \in {"lc1.dat", "Undefined"} }
    \cup { BolBlock \o <<KV(Br("phoebe_lc_filename", 1), Q("Undefined")),
                         KV("phoebe_rvno", "0")>> \o DefaultOrbit }
    \cup { BolBlock \o <<KV("phoebe_lcno", "0")>> \o RvBlock(<<p>>, style)
           \o DefaultOrbit : p \in Profiles, style \in Styles }
    \cup { BolBlock \o LcLines(1, "lc1.dat", "Johnson:V") \o RvBlock(<<p>>, <<"natural", "bydataset">>)
           : p \in Profiles }

\* Files that give one scalar its value, its limits and its step.
ScalarLines(stem, n) ==
    <<KV(stem \o ".VAL", n), KV(stem \o ".MIN", n), KV(stem \o ".MAX", n),
      KV(stem \o ".STEP", n)>>

LimitFiles ==
    { Head0(0, 0) \o ScalarLines(stem, n) :
        stem \in {"phoebe_dpdt", "phoebe_dperdt", "phoebe_perr0", "phoebe_vga",
                  "phoebe_sma"},
        n \in {"0.001000", "1.500000"} }

\* Files with one RV dataset for each star, independent-variable kind and
\* uncertainty kind, naming a data file of two or of three columns.
ObsFiles ==
    { Head0(0, 1)
      \o RvBlock(<<Profile(tag, fname, "Johnson:V", indep, weight)>>,
                 <<"natural", "bydataset">>)
      \o DefaultOrbit :
        tag \in {"Primary RV", "Secondary RV"}, fname \in {"rv2.dat", "rv3.dat"},
        indep \in {"Time (HJD)", "Phase"},
        weight \in {"Unavailable", "Standard deviation", "Standard weight"} }

\* Files that give a star's phoebe_ld_rvy before any phoebe_ld_rvx of that
\* star: y then x, for either star, and y of star 1 after the x of star 2.
RvyFirstFiles ==
    { Head0(0, 1) \o <<KV(Br("phoebe_ld_rvy" \o n, 1), "0.210000"),
                        KV(Br("phoebe_ld_rvx" \o n, 1), "0.510000")>> \o DefaultOrbit :
        n \in {"1", "2"} }
    \cup { Head0(0, 1) \o <<KV(Br("phoebe_ld_rvx2", 1), "0.410000"),
                            KV(Br("phoebe_ld_rvy1", 1), "0.210000"),
                            KV(Br("phoebe_ld_rvx1", 1), "0.510000")>>,
           Head0(0, 1) \o <<KV("phoebe_ld_rvy2", "0.110000")>> \o DefaultOrbit }

\* Files whose one RV dataset lacks the line of one key.
UnevenFiles ==
    { Head0(0, 1)
      \o SelectSeq(RvLines(1, 1, Profile("Primary RV", "rv2.dat", "Johnson:V",
                                         "Time (HJD)", "Unavailable")),
                   LAMBDA line : ~StartsAt(line, key, 0))
      \o DefaultOrbit :
        key \in {"phoebe_rv_sigma", "phoebe_ld_rvy2", "phoebe_rv_filter"} }

\* Files with light-curve keys whose bracket number is 0, or larger than
\* phoebe_lcno, or of two digits.
BracketFiles ==
    { BolBlock \o <<KV("phoebe_lcno", ToString(n))>>
      \o LcLines(1, "lc1.dat", "Johnson:V") \o <<line, KV("phoebe_rvno", "0")>> :
        n \in 1..MaxLc,
        line \in { KV(Br("phoebe_lc_filename", 0), Q("z.dat")),
                   KV(Br("phoebe_hla", 0) \o ".VAL", "9.000000"),
                   KV(Br("phoebe_lc_filename", MaxLc + 1), Q("x.dat")),
                   KV(Br("phoebe_lc_filename", MaxLc + 1), Q("Undefined")),
                   KV(Br("phoebe_lc_filter", 10), Q("Johnson:B")) } }

\* Files in which the value of a key that is no passband key holds a ':' or
\* begins with 'Bes': a light-curve file name, an RV file name, an RV
\* identifier.
ColonFiles ==
    { BolBlock \o <<KV("phoebe_lcno", "1"), KV(Br("phoebe_lc_filename", 1), Q(name)),
                    KV("phoebe_rvno", "0")>> : name \in {"run:1.dat", "Bessel.dat"} }
    \cup { Head0(0, 1)
           \o RvLines(1, 1, Profile("Primary RV", "night:2.dat", "Johnson:V",
                                    "Time (HJD)", "Unavailable")),
           Head0(0, 1) \o <<KV(Br("phoebe_rv_id", 1), Q("star:A"))>> \o DefaultOrbit }

\* The calls of the model: a file and the keyword arguments.
Inputs ==
    { <<f, DefaultFlags>> :
        f \in RvFiles \cup LcFiles \cup BandFiles \cup OrbitFiles \cup TokFiles
              \cup NoCountFiles \cup LimitFiles \cup ObsFiles \cup RvyFirstFiles
              \cup UnevenFiles \cup BracketFiles \cup ColonFiles
              \cup {MinimalFile, BolBlock \o MinimalFile} }
    \cup (FlagFiles \X AllFlags)

\* No second invocation, and no call of compute.py.
NoFrame == [pc |-> "<none>"]
NoCall == [name |-> "<none>"]
NoReturn == [raised |-> "<none>"]

\* The entry of legacy_to_phoebe(inp[1], **inp[2]).
Begin(inp) ==
    /\ file = inp[1]
    /\ create_body = inp[2].create_body
    /\ create_bundle = inp[2].create_bundle
    /\ mesh = inp[2].mesh
    /\ pc = "lines"
    /\ pos = 1
    /\ InitLocals
    /\ rvdep1 = <<>> /\ rvdep2 = <<>>
    /\ i = 0 /\ j = 0 /\ k = 0 /\ l = 0 /\ m = 0
    /\ obsrv1 = <<>> /\ obsrv2 = <<>>
    /\ built = NotBuilt
    /\ result = NoResult
    /\ ncalls = 0

Init ==
    /\ \E inp \in Inputs : Begin(inp)
    /\ me = 1 /\ other = NoFrame
    /\ devel = FALSE /\ call = NoCall /\ ret = NoReturn

Next ==
    \/ ReadLine
    \/ EndOfLines
    \/ ReduceStep
    \/ Assemble
    \/ CallFromSupconjToPerpass

Spec == Init /\ [][Next]_vars

(***************************************************************************)
(* Two invocations of legacy_to_phoebe.  Every name the function assigns   *)
(* is a local of the call (lines 38-66 and 492-498 assign them afresh in   *)
(* each call; the module holds no other state than the logger), so an      *)
(* invocation is its frame.  The variables hold the frame of the running   *)
(* invocation, `other` the frame of the suspended one, and a switch may    *)
(* come between any two steps.                                             *)
(***************************************************************************)
Frame ==
    [me |-> me, pc |-> pc, file |-> file, pos |-> pos,
     create_body |-> create_body, create_bundle |-> create_bundle,
     mesh |-> mesh, s |-> Locals, rvdep1 |-> rvdep1, rvdep2 |-> rvdep2,
     i |-> i, j |-> j, k |-> k, l |-> l, m |-> m, obsrv1 |-> obsrv1,
     obsrv2 |-> obsrv2, built |-> built, result |-> result, ncalls |-> ncalls]

\* A faulty variant of Load, in which index is a name of the module: the
\* invocation resumed finds the index the other one left.
Load_SharedIndex(fr) ==
    /\ me' = fr.me /\ pc' = fr.pc /\ file' = fr.file /\ pos' = fr.pos
    /\ create_body' = fr.create_body /\ create_bundle' = fr.create_bundle
    /\ mesh' = fr.mesh /\ SetLocals([fr.s EXCEPT !.index = index])
    /\ rvdep1' = fr.rvdep1 /\ rvdep2' = fr.rvdep2
    /\ i' = fr.i /\ j' = fr.j /\ k' = fr.k /\ l' = fr.l /\ m' = fr.m
    /\ obsrv1' = fr.obsrv1 /\ obsrv2' = fr.obsrv2
    /\ built' = fr.built /\ result' = fr.result /\ ncalls' = fr.ncalls
\* The invocation of frame fr is resumed.
Load(fr) ==
    /\ me' = fr.me /\ pc' = fr.pc /\ file' = fr.file /\ pos' = fr.pos
    /\ create_body' = fr.create_body /\ create_bundle' = fr.create_bundle
    /\ mesh' = fr.mesh /\ SetLocals(fr.s)
    /\ rvdep1' = fr.rvdep1 /\ rvdep2' = fr.rvdep2
    /\ i' = fr.i /\ j' = fr.j /\ k' = fr.k /\ l' = fr.l /\ m' = fr.m
    /\ obsrv1' = fr.obsrv1 /\ obsrv2' = fr.obsrv2
    /\ built' = fr.built /\ result' = fr.result /\ ncalls' = fr.ncalls

\* The running invocation is suspended and the other one resumed.
Switch ==
    /\ other # NoFrame
    /\ Load(other)
    /\ other' = Frame
    /\ UNCHANGED computeVars

\* The files of the two invocations: light curves and an RV dataset, two RV
\* datasets laid out key after key, two light curves, and two files on which
\* the call fails (at its end, and at a line).
TwoFiles ==
    { TokBase,
      Head0(0, 2)
        \o RvBlock(<<Profile("Secondary RV", "rv3.dat", "Johnson:V", "Phase", "Standard deviation"),
                     Profile("Primary RV", "Undefined", "Johnson:V", "Time (HJD)", "Unavailable")>>,
                   <<"gapped", "bykey">>)
        \o DefaultOrbit,
      BolBlock \o LcBlock(<<"a.dat", "Undefined">>) \o <<KV("phoebe_rvno", "0")>>,
      MinimalFile,
      BolBlock \o LcLines(2, "lc2.dat", "Johnson:V") }

InitTwo ==
    /\ \E f1 \in TwoFiles : \E f2 \in TwoFiles \ {f1} :
          /\ Begin(<<f1, DefaultFlags>>)
          /\ me = 1
          /\ other = [Frame EXCEPT !.me = 2, !.file = f2]
    /\ devel = FALSE /\ call = NoCall /\ ret = NoReturn

NextTwo ==
    \/ ReadLine
    \/ EndOfLines
    \/ ReduceStep
    \/ Assemble
    \/ Switch

SpecTwo == InitTwo /\ [][NextTwo]_vars

(***************************************************************************)
(* phoebe/parameters/compute.py: the experimental backends.  A parameter   *)
(* is its qualifier, its value (as Python writes it) and its visibility    *)
(* condition; a call returns ParameterSet(params) or raises.               *)
(***************************************************************************)
Param(qualifier, value, visible_if) ==
    [qualifier |-> qualifier, value |-> value, visible_if |-> visible_if]

\* kwargs.get(q, default)
Get(kwargs, q, default) == IF q \in DOMAIN kwargs THEN kwargs[q] ELSE default

\* What a call leaves: the exception raised ("" for none), the parameters
\* created, and whether a ParameterSet was returned.
Outcome(raised, params, set) == [raised |-> raised, params |-> params, set |-> set]

\* A faulty variant of photodynam, without the test of lines 334-335.
photodynam_Ungated(kwargs) ==
    Outcome("", <<Param("enabled", Get(kwargs, "enabled", "True"), ""),
                  Param("stepsize", Get(kwargs, "stepsize", "0.01"), ""),
                  Param("orbiterror", Get(kwargs, "orbiterror", "1e-20"), "")>>, TRUE)
\* Lines 240-347.
photodynam(kwargs) ==
    IF ~devel THEN Outcome("NotImplementedError", <<>>, FALSE)
    ELSE Outcome("", <<Param("enabled", Get(kwargs, "enabled", "True"), ""),
                       Param("stepsize", Get(kwargs, "stepsize", "0.01"), ""),
                       Param("orbiterror", Get(kwargs, "orbiterror", "1e-20"), "")>>,
                 TRUE)

\* Lines 349-443.
jktebop(kwargs) ==
    IF ~devel THEN Outcome("NotImplementedError", <<>>, FALSE)
    ELSE Outcome("", <<Param("enabled", Get(kwargs, "enabled", "True"), ""),
                       Param("ringsize", Get(kwargs, "ringsize", "5"), "")>>, TRUE)

\* Lines 445-581.
ellc(kwargs) ==
    IF ~devel THEN Outcome("NotImplementedError", <<>>, FALSE)
    ELSE Outcome("",
           <<Param("enabled", Get(kwargs, "enabled", "True"), ""),
             Param("distortion_method", Get(kwargs, "distortion_method", "roche"), ""),
             Param("hf", Get(kwargs, "hf", "1.5"), "distortion_method:love"),
             Param("grid", Get(kwargs, "grid", "default"), ""),
             Param("exact_grav", Get(kwargs, "exact_grav", "False"), ""),
             Param("rv_method", Get(kwargs, "rv_method", "flux-weighted"), ""),
             Param("fti_method", Get(kwargs, "fti_method", "none"), ""),
             Param("fti_oversample", Get(kwargs, "fti_oversample", "5"),
                   "fit_method:oversample")>>, TRUE)

\* Lines 16-154: the built-in backend, which has no developer gate; some of
\* its parameters exist in developer mode only.
phoebe(kwargs) ==
    LET dev(ps) == IF devel THEN ps ELSE <<>>
    IN  Outcome("",
          <<Param("enabled", Get(kwargs, "enabled", "True"), ""),
            Param("dynamics_method", Get(kwargs, "dynamics_method", "keplerian"), ""),
            Param("ltte", Get(kwargs, "ltte", "False"), "")>>
          \o dev(<<Param("gr", Get(kwargs, "gr", "False"), "dynamics_method:nbody"),
                   Param("stepsize", Get(kwargs, "stepsize", "0.01"), "dynamics_method:nbody"),
                   Param("integrator", Get(kwargs, "integrator", "ias15"),
                         "dynamics_method:nbody")>>)
          \o <<Param("irrad_method", Get(kwargs, "irrad_method", "wilson"), ""),
               Param("boosting_method", Get(kwargs, "boosting_method", "none"), ""),
               Param("mesh_method", Get(kwargs, "mesh_method", "marching"), ""),
               Param("ntriangles", Get(kwargs, "ntriangles", "1500"), "mesh_method:marching"),
               Param("distortion_method", Get(kwargs, "distortion_method", "roche"),
                     "mesh_method:marching")>>
          \o dev(<<Param("gridsize", Get(kwargs, "gridsize", "60"), "mesh_method:wd")>>)
          \o dev(<<Param("mesh_offset", Get(kwargs, "mesh_offset", "True"), ""),
                   Param("mesh_init_phi", Get(kwargs, "mesh_init_phi", "0.0"),
                         "mesh_method:marching")>>)
          \o <<Param("eclipse_method", Get(kwargs, "eclipse_method", "native"), ""),
               Param("horizon_method", Get(kwargs, "horizon_method", "boolean"),
                     "eclipse_method:native"),
               Param("atm", Get(kwargs, "atm", "ck2004"), ""),
               Param("lc_method", Get(kwargs, "lc_method", "numerical"), ""),
               Param("fti_method", Get(kwargs, "fti_method", "none"), ""),
               Param("fti_oversample", Get(kwargs, "fti_oversample", "5"),
                     "fti_method:oversample"),
               Param("rv_method", Get(kwargs, "rv_method", "flux-weighted"), ""),
               Param("rv_grav", Get(kwargs, "rv_grav", "False"), "rv_method:flux-weighted")>>
          \o dev(<<Param("etv_method", Get(kwargs, "etv_method", "crossing"), ""),
                   Param("etv_tol", Get(kwargs, "etv_tol", "1e-4"), "etv_method:crossing")>>),
          TRUE)

CallPhoebe ==
    /\ call.name = "phoebe" /\ ret = NoReturn
    /\ ret' = phoebe(call.kwargs)
    /\ UNCHANGED <<frameVars, sideVars, devel, call>>

CallPhotodynam ==
    /\ call.name = "photodynam" /\ ret = NoReturn
    /\ ret' = photodynam(call.kwargs)
    /\ UNCHANGED <<frameVars, sideVars, devel, call>>

CallJktebop ==
    /\ call.name = "jktebop" /\ ret = NoReturn
    /\ ret' = jktebop(call.kwargs)
    /\ UNCHANGED <<frameVars, sideVars, devel, call>>

CallEllc ==
    /\ call.name = "ellc" /\ ret = NoReturn
    /\ ret' = ellc(call.kwargs)
    /\ UNCHANGED <<frameVars, sideVars, devel, call>>

\* The keyword-argument sets of the calls: any of these given or left out.
Kwargs ==
    UNION { [keys -> {"True", "False", "0.05", "7", "sphere", "oversample"}] :
              keys \in SUBSET {"enabled", "stepsize", "ringsize", "distortion_method",
                               "fti_method"} }

KwargsOk(kw) ==
    /\ "enabled" \in DOMAIN kw => kw["enabled"] \in {"True", "False"}
    /\ "stepsize" \in DOMAIN kw => kw["stepsize"] = "0.05"
    /\ "ringsize" \in DOMAIN kw => kw["ringsize"] = "7"
    /\ "distortion_method" \in DOMAIN kw => kw["distortion_method"] = "sphere"
    /\ "fti_method" \in DOMAIN kw => kw["fti_method"] = "oversample"

InitCompute ==
    /\ Begin(<< <<>>, DefaultFlags >>)
    /\ me = 1 /\ other = NoFrame
    /\ devel \in BOOLEAN
    /\ \E name \in {"phoebe", "photodynam", "jktebop", "ellc"} :
          \E kw \in {x \in Kwargs : KwargsOk(x)} :
              call = [name |-> name, kwargs |-> kw]
    /\ ret = NoReturn

NextCompute ==
    \/ CallPhoebe
    \/ CallPhotodynam
    \/ CallJktebop
    \/ CallEllc

SpecCompute == InitCompute /\ [][NextCompute]_vars

\* The locals of lines 38-66, as a record.
Locals0 ==
    [defined |-> {}, index |-> 0, lcno |-> 0, rvno |-> 0, orbit |-> NewOrbit,
     comp1 |-> NewComponent("myprimary"), comp2 |-> NewComponent("mysecondary"),
     globals |-> NewGlobals, mesh1wd |-> NewMeshWd, mesh2wd |-> NewMeshWd,
     lcdep1 |-> <<>>, lcdep2 |-> <<>>, ld_xbol1 |-> Num(0, 0),
     ld_xbol2 |-> Num(0, 0), ld_ybol1 |-> Num(0, 0), ld_ybol2 |-> Num(0, 0),
     ld_lcy1 |-> Num(0, 0), ld_lcy2 |-> Num(0, 0), ld_rvx1 |-> Num(0, 0),
     ld_rvx2 |-> Num(0, 0), rv_dep |-> <<>>, prim_rv |-> 0, sec_rv |-> 0,
     rv_pb |-> <<>>, rv_pbweight |-> <<>>, ld_coeffs1 |-> <<>>,
     ld_coeffs2 |-> <<>>, rv_file |-> <<>>, rvtime |-> <<>>, rvsigma |-> <<>>,
     rvname |-> <<>>]

\* The line loop run alone on lines p.. of f, from the outcome acc.
RECURSIVE RunAlone(_, _, _)
RunAlone(f, p, acc) ==
    IF p > Len(f) \/ ~acc.ok THEN acc
    ELSE RunAlone(f, p + 1, ProcessLine(acc.s, f[p]))

(***************************************************************************)
(* Properties.                                                             *)
(***************************************************************************)

\* What the file itself declares, read off its text: the number given by the
\* last "key = n" line of the key, and the tags of its phoebe_rv_dep lines.
IsLineOf(line, key) ==
    /\ StartsAt(line, key, 0)
    /\ CharAt(line, Len(key)) \in {" ", "[", "="}
    /\ Count(line, "=") = 1

RECURSIVE DeclaredCount(_, _, _)
DeclaredCount(f, key, p) ==
    IF p = 0 THEN -1
    ELSE IF IsLineOf(f[p], key) THEN PyInt(ValOf(f[p])).v
    ELSE DeclaredCount(f, key, p - 1)

RECURSIVE TagsOf(_)
TagsOf(f) ==
    IF f = <<>> THEN <<>>
    ELSE IF IsLineOf(Head(f), "phoebe_rv_dep")
         THEN <<Slice(ValOf(Head(f)), 2, -2)>> \o TagsOf(Tail(f))
         ELSE TagsOf(Tail(f))

\* C1: when the call has completed, both light-curve dependency lists have
\* the length the file's phoebe_lcno line gives, and at every index the ref
\* of component 2's record equals the ref of component 1's record.
C1_LcdepParallel ==
    pc = "done" =>
        /\ lcno = DeclaredCount(file, "phoebe_lcno", Len(file))
        /\ Len(lcdep1) = lcno
        /\ Len(lcdep2) = lcno
        /\ \A x \in 1..lcno : lcdep2[x].ref = lcdep1[x].ref

\* A completed call with two light curves, the first named by its file name,
\* the second left with the reference its record was created with.
C1_Witness ==
    /\ pc = "done"
    /\ lcno = 2
    /\ lcdep1[1].ref = "lc1.dat"
    /\ lcdep1[2].ref = NewLcdep("lcdep1", 1).ref

\* C2: when the call has completed, the primary and the secondary RV
\* dependency lists together hold as many records as phoebe_rvno declares.
C2_RvCountIsRvno ==
    pc = "done" => Len(rvdep1) + Len(rvdep2) = rvno

\* The number of entries tagged 'Primary RV' among the first n.
PrimariesIn(tags, n) == Cardinality({y \in 1..n : tags[y] = "Primary RV"})

\* C3: in the reduction pass the entries are taken in the file order of the
\* phoebe_rv_dep lines; the n-th entry tagged 'Primary RV' is record n of the
\* primary list, with ref 'primaryrv_n', the n-th other entry is record n of
\* the secondary list, with ref 'secondaryrv_n', whatever the brackets; and
\* when every phoebe_rv_dep line says 'Primary RV' the secondary list is empty.
C3_RunningIndex ==
    pc \in {"reduce", "done"} =>
        /\ rv_dep = TagsOf(file)
        /\ \A x \in 1..i :
              LET np == PrimariesIn(rv_dep, x - 1)
                  ns == (x - 1) - np
              IN  IF rv_dep[x] = "Primary RV"
                  THEN /\ rvdep1[np + 1].ref = "primaryrv_" \o ToString(np)
                       /\ rvdep1[np + 1].passband = rv_pb[x]
                  ELSE /\ rvdep2[ns + 1].ref = "secondaryrv_" \o ToString(ns)
                       /\ rvdep2[ns + 1].passband = rv_pb[x]
        /\ (\A x \in 1..Len(rv_dep) : rv_dep[x] = "Primary RV") => rvdep2 = <<>>

\* A completed call on a file whose two datasets are numbered [3] and [5],
\* the first secondary and the second primary.
C3_Witness ==
    /\ pc = "done"
    /\ rvno = 2
    /\ index = 4
    /\ rv_dep = <<"Secondary RV", "Primary RV">>
    /\ rvdep1[1].ref = "primaryrv_0"

\* The parser state a line of the file can change: every local of the loop.
\* (pos apart, which counts the lines consumed.)
LineStep == pc = "lines" /\ pos <= Len(file)

\* C4: a line with no '=' does not abort the parse and changes nothing: no
\* record, no RV accumulator sequence, and not the dataset index the lines
\* after it use.  The parse goes on with the next line from the same state, so
\* the result is that of the file without the line.
C4_UnsplittableLineSkipped ==
    [][(LineStep /\ Count(file[pos], "=") = 0)
        => (pc' = "lines" /\ pos' = pos + 1
            /\ UNCHANGED <<lineVars, reduceVars, built, result>>)]_vars

\* A completed call on a file with a line without '=' between two lines that
\* write an indexed slot and the RV accumulators.
C4_Witness ==
    /\ pc = "done"
    /\ \E p \in 8..(Len(file) - 1) :
          /\ Count(file[p], "=") = 0
          /\ CharAt(file[p], 0) # "#"
    /\ Len(rv_dep) = 1
    /\ lcdep1[1].ld_coeffs = <<Num(5, 1), Num(25, 2)>>

\* C5: the minimal file (phoebe_lcno = 1, one light-curve group, phoebe_rvno
\* = 0, the orbit .VAL keys) is parsed to completion, and the result holds
\* the declared period, eccentricity and inclination and one light-curve
\* dependency per star, with the same ref.
C5_MinimalFileParses ==
    (file = MinimalFile /\ pos > Len(file)) =>
        /\ pc # "failed"
        /\ pc = "done" =>
              /\ orbit.period.value = Num(10, 0)
              /\ orbit.ecc.value = Num(1, 1)
              /\ orbit.incl.value = Num(85, 0)
              /\ Len(lcdep1) = 1 /\ Len(lcdep2) = 1
              /\ lcdep1[1].ref = lcdep2[1].ref

\* C6: for an orbit whose per0 is 0, from_supconj_to_perpass leaves
\* t0 = t0_supconj + (phshift - 1/4) * period; from t0_supconj = 2450000.0,
\* phshift = 0.0 and period = 10.0 the epoch is 2449997.5.
C6_PerpassEpoch ==
    [][(pc = "done" /\ ncalls' = ncalls + 1 /\ orbit.per0.value = Num(0, 0))
        => /\ orbit'.t0.value =
                NumAdd(orbit.t0.value,
                       NumMul(NumSub(orbit.phshift.value, Num(25, 2)),
                              orbit.period.value))
           /\ (/\ orbit.t0.value = Num(2450000, 0)
               /\ orbit.phshift.value = Num(0, 0)
               /\ orbit.period.value = Num(10, 0))
              => orbit'.t0.value = Num(24499975, 1)]_vars

\* The transform has been applied once to the orbit of the example.
C6_Witness ==
    /\ pc = "done"
    /\ ncalls = 1
    /\ orbit.per0.value = Num(0, 0)
    /\ orbit.phshift.value = Num(0, 0)
    /\ orbit.period.value = Num(10, 0)
    /\ orbit.t0.value = Num(24499975, 1)

\* A canonical passband name: INSTRUMENT.BAND in upper case, with one point
\* and none of the characters of the legacy notation.
IsCanonical(v) ==
    /\ Count(v, ".") = 1
    /\ FindFrom(v, ".", 0) > 0 /\ FindFrom(v, ".", 0) < Len(v) - 1
    /\ Upper(v) = v
    /\ \A c \in {":", "\"", " ", "\n"} : Count(v, c) = 0
    /\ ~IsDigit(CharAt(v, 0))

\* C7: when the normalization of the line loop has turned the value of a line
\* into a canonical passband name, normalizing that name again returns it
\* unchanged.
C7_RemapIdempotent ==
    (LineStep /\ SplitsInTwo(file[pos])) =>
        LET v == PassbandRemap(ValOf(file[pos]))
        IN  IsCanonical(v) => PassbandRemap(v) = v

\* The passband of a light curve has been rewritten from the legacy name
\* "Sloan:g'" to SDSS.G.
C7_Witness ==
    /\ pc = "lines"
    /\ pos > 1
    /\ ValOf(file[pos - 1]) = " \"Sloan:g'\"\n"
    /\ Len(lcdep1) = 1
    /\ lcdep1[1].passband = "SDSS.G"

\* C8: the flags alone select the result: the bundle when create_bundle, else
\* the body when create_body, else the tuple; the construction collaborator
\* is called exactly when one of the two flags is set, and the mesh flag is
\* read only then.
C8_ResultShape ==
    /\ pc = "done" =>
          /\ create_bundle => result = "bundle"
          /\ (~create_bundle /\ create_body) => result = "body"
          /\ (~create_bundle /\ ~create_body) => result = "tuple"
          /\ built.called <=> (create_body \/ create_bundle)
          /\ built.bundled <=> create_bundle
    /\ built.meshread => (create_body \/ create_bundle)
    /\ pc # "done" => (result = NoResult /\ ~built.called)

\* Both flags set: the bundle is returned, built on a marching mesh.
C8_Witness ==
    /\ pc = "done"
    /\ create_bundle /\ create_body
    /\ mesh = "marching"
    /\ result = "bundle"
    /\ built.mesh1.context = "mesh:marching"

\* The key of a line once its bracket and its trailing spaces are removed.
RECURSIVE DropSpaces(_)
DropSpaces(key) ==
    IF key # "" /\ CharAt(key, Len(key) - 1) = " " THEN DropSpaces(Slice(key, 0, -1))
    ELSE key
BareKey(line) == DropSpaces(StripBracket(KeyOf(line)))

\* C9: a 'key = value' line whose key, bracket and trailing spaces removed,
\* is not a recognized key does not abort the parse and leaves the orbit,
\* component, mesh, globals and light-curve dependency records and the RV
\* accumulator sequences unchanged.
C9_UnknownKeyIgnored ==
    [][(/\ LineStep
        /\ CharAt(file[pos], 0) # "#"
        /\ SplitsInTwo(file[pos])
        /\ BareKey(file[pos]) \notin RecognizedKeys)
        => (/\ pc' = "lines"
            /\ UNCHANGED <<orbit, comp1, comp2, mesh1wd, mesh2wd, globals,
                           lcdep1, lcdep2, rv_dep, rv_pb, rv_pbweight,
                           ld_coeffs1, ld_coeffs2, rv_file, rvtime, rvsigma,
                           rvname>>)]_vars

\* C10: a line with one '=' whose key part is empty or only spaces is
\* skipped, and the parse continues with the next line.
C10_BlankKeySkipped ==
    [][(/\ LineStep
        /\ SplitsInTwo(file[pos])
        /\ DropSpaces(KeyOf(file[pos])) = "")
        => (pc' = "lines" /\ pos' = pos + 1)]_vars

\* Whether some line of f reaches the router with one of the keys.
HasKey(f, keys) ==
    \E p \in 1..Len(f) :
        /\ CharAt(f[p], 0) # "#"
        /\ SplitsInTwo(f[p])
        /\ BareKey(f[p]) \in keys

\* The file has no phoebe_lcno line but a light-curve key, or no phoebe_rvno
\* line but an RV key.
CountMissing(f) ==
    \/ ~HasKey(f, {"phoebe_lcno"}) /\ HasKey(f, LcKeys)
    \/ ~HasKey(f, {"phoebe_rvno"})
       /\ HasKey(f, RvKeys \cup {"phoebe_ld_rvx1", "phoebe_ld_rvx2"})

\* C11: on a file with no phoebe_lcno line and a light-curve key, or no
\* phoebe_rvno line and RV keys, the call never reaches the reduction pass or
\* a result: nothing is built or returned, and the step taken once the last
\* line is consumed ends the call in failure.
C11_MissingCountFails ==
    /\ [](\/ /\ pc \in {"lines", "failed"}
             /\ result = NoResult
             /\ built = NotBuilt
          \/ ~CountMissing(file))
    /\ [][(pc = "lines" /\ pos > Len(file) /\ CountMissing(file))
            => pc' = "failed"]_vars

\* A file with RV keys and no phoebe_rvno line has been read to its last line
\* with the lists of line 488 never allocated, and the call has failed.
C11_Witness ==
    /\ pc = "failed"
    /\ pos > Len(file)
    /\ ~HasKey(file, {"phoebe_rvno"})
    /\ HasKey(file, {"phoebe_lcno"})
    /\ Len(rv_dep) = 1
    /\ rvdep1 = <<>> /\ rvdep2 = <<>>

\* C12: for dpdt, dperdt and per0 the conversion applied to the numbers of
\* the .MIN, .MAX and .STEP keys is the conversion applied to the number of
\* the .VAL key, so that value, limits and step are in the same unit.
C12_SameConversion ==
    \A q \in {"dpdt", "dperdt", "per0"} :
        \A lim \in {"llim", "ulim", "step"} :
            (orbit[q].value # Default /\ orbit[q][lim] # Default)
                => orbit[q][lim].conv \in TagConversions(orbit[q].unit)

\* C13: the systemic velocity given by phoebe_vga.VAL is a parameter of the
\* orbit record, so the tuple returned without a body or a bundle carries it.
C13_VgammaInOrbit ==
    (pc = "done" /\ result = "tuple" /\ HasKey(file, {"phoebe_vga.VAL"}))
        => /\ "vgamma" \in DOMAIN orbit
           /\ orbit["vgamma"].value # Default

\* C14: with the steps of two invocations on different files interleaved in
\* any order, a step of the running invocation changes nothing of the
\* suspended one, a switch hands each invocation back exactly what it had,
\* and the line loop of each ends with the locals it has when run alone on
\* its file (or fails as it does alone).
C14_InvocationsIndependent ==
    /\ [][me' = me => other' = other]_vars
    /\ [][me' # me => (other' = Frame /\ Frame' = other)]_vars
    /\ []((pos > Len(file) /\ pc = "lines")
            => RunAlone(file, 1, Ok(Locals0)) = Ok(Locals))
    /\ []((pos <= Len(file) /\ pc = "failed")
            => ~RunAlone(file, 1, Ok(Locals0)).ok)

\* Both invocations have returned, each the tuple of its own file: the first
\* after a light curve and a primary RV dataset, the second after two RV
\* datasets, neither having seen the other's bracket numbers.
C14_Witness ==
    /\ pc = "done" /\ other.pc = "done"
    /\ me = 1 /\ other.me = 2
    /\ file = TokBase
    /\ Len(lcdep1) = 1 /\ Len(rvdep1) = 1 /\ index = 0
    /\ Len(other.rvdep1) = 1 /\ Len(other.rvdep2) = 1 /\ other.s.index = 4

\* C15: with developer mode off, photodynam, jktebop and ellc raise
\* NotImplementedError for every keyword-argument set and create no
\* parameter; with developer mode on, each returns a ParameterSet.
C15_DeveloperGate ==
    (call.name \in {"photodynam", "jktebop", "ellc"} /\ ret # NoReturn) =>
        IF devel
        THEN ret.raised = "" /\ ret.set /\ ret.params # <<>>
        ELSE ret.raised = "NotImplementedError" /\ ~ret.set /\ ret.params = <<>>

\* photodynam(enabled=False, stepsize=0.05) has been called with developer
\* mode off and has raised.
C15_Witness ==
    /\ ~devel
    /\ call.name = "photodynam"
    /\ DOMAIN call.kwargs = {"enabled", "stepsize"}
    /\ ret.raised = "NotImplementedError"

\* C16: every pair in a star's RV limb-darkening sequence is made of the x
\* and the y that the file gives for one and the same bracket number.
C16_PairsAligned ==
    LET Given(key, b) ==
            { PyFloat(Slice(ValOf(file[p]), 1, -2)).v :
                p \in { p \in 1..Len(file) :
                          /\ CharAt(file[p], 0) # "#"
                          /\ SplitsInTwo(file[p])
                          /\ HasBracket(KeyOf(file[p]))
                          /\ BracketIndex(KeyOf(file[p])) = b
                          /\ BareKey(file[p]) = key } }
        Aligned(pairs, xkey, ykey) ==
            \A n \in 1..Len(pairs) :
                \E b \in -1..8 : /\ pairs[n][1] \in Given(xkey, b)
                                 /\ pairs[n][2] \in Given(ykey, b)
    IN  (pc # "lines" \/ pos > Len(file)) =>
            /\ Aligned(ld_coeffs1, "phoebe_ld_rvx1", "phoebe_ld_rvy1")
            /\ Aligned(ld_coeffs2, "phoebe_ld_rvx2", "phoebe_ld_rvy2")

\* C17: a line whose key has no bracket and is one of the light-curve keys
\* that need an index writes to no light-curve slot.
C17_UnbracketedWritesNoSlot ==
    [][(/\ LineStep
        /\ SplitsInTwo(file[pos])
        /\ ~HasBracket(KeyOf(file[pos]))
        /\ BareKey(file[pos]) \in LcKeys)
        => (lcdep1' = lcdep1 /\ lcdep2' = lcdep2)]_vars

\* C18: in and after the reduction pass, each star's observation records
\* are, in order, those of its processed RV entries whose file name is not
\* 'Undefined'; each carries the file name of its entry and the ref of the
\* dependency record of the same entry, numbered by the star's entry count;
\* an 'Undefined' entry has its dependency record and no observation record.
C18_ObsMatchDeps ==
    LET Seen(prim, n) == {y \in 1..n : (rv_dep[y] = "Primary RV") = prim}
        Observed(prim, n) == {y \in Seen(prim, n) : rv_file[y] # "Undefined"}
    IN  pc \in {"reduce", "done"} =>
          /\ Len(obsrv1) = Cardinality(Observed(TRUE, i))
          /\ Len(obsrv2) = Cardinality(Observed(FALSE, i))
          /\ \A x \in 1..i :
               LET prim == rv_dep[x] = "Primary RV"
                   d    == Cardinality(Seen(prim, x - 1))
                   o    == Cardinality(Observed(prim, x - 1))
                   deps == IF prim THEN rvdep1 ELSE rvdep2
                   obs  == IF prim THEN obsrv1 ELSE obsrv2
               IN  /\ deps[d + 1].ref =
                        (IF prim THEN "primaryrv_" ELSE "secondaryrv_") \o ToString(d)
                   /\ rv_file[x] # "Undefined" =>
                        /\ obs[o + 1].ref = deps[d + 1].ref
                        /\ obs[o + 1].filename = rv_file[x]

\* The primary has an entry without file and then one with a file: two
\* dependency records, and one observation record with the ref of the second.
C18_Witness ==
    /\ pc = "done"
    /\ rv_dep = <<"Primary RV", "Primary RV">>
    /\ rv_file = <<"Undefined", "rv2.dat">>
    /\ Len(rvdep1) = 2
    /\ Len(obsrv1) = 1
    /\ obsrv1[1].ref = "primaryrv_1"

\* C19: for every processed RV entry with a data file, of either star and of
\* either independent-variable kind: when its uncertainty kind is 'undefined'
\* the file is read as two columns and the observation has no third column;
\* when it is 'sigma' (resp. 'weight') the file is read as three columns and
\* the third is stored as sigma (resp. weight); the first column is stored
\* as time or phase, as the independent-variable kind says.
C19_ColumnsByKind ==
    LET Seen(prim, n) == {y \in 1..n : (rv_dep[y] = "Primary RV") = prim}
        Observed(prim, n) == {y \in Seen(prim, n) : rv_file[y] # "Undefined"}
    IN  pc \in {"reduce", "done"} =>
          \A x \in 1..i :
             rv_file[x] # "Undefined" =>
               LET prim == rv_dep[x] = "Primary RV"
                   o    == Cardinality(Observed(prim, x - 1))
                   r    == IF prim THEN obsrv1[o + 1] ELSE obsrv2[o + 1]
               IN  /\ r.first = rvtime[x]
                   /\ r.first \in {"time", "phase"}
                   /\ IF rvsigma[x] = "undefined"
                      THEN r.third = "none" /\ DataColumns(rv_file[x]) = 2
                      ELSE /\ r.third = rvsigma[x]
                           /\ r.third \in {"sigma", "weight"}
                           /\ DataColumns(rv_file[x]) = 3

\* The secondary's dataset is in phase with weights: three columns, the
\* third stored as weight.
C19_Witness ==
    /\ pc = "done"
    /\ rv_dep = <<"Secondary RV">>
    /\ rvtime = <<"phase">>
    /\ rvsigma = <<"weight">>
    /\ Len(obsrv2) = 1
    /\ obsrv2[1].first = "phase"
    /\ obsrv2[1].third = "weight"

\* C20: when a body or a bundle is built, a star's construction call is given
\* obs exactly when an observation record was created for one of that star's
\* RV entries, independently for the two stars.
C20_ObsPassedIffObserved ==
    (pc = "done" /\ built.called) =>
        /\ built.obs1given <=> Len(obsrv1) > 0
        /\ built.obs2given <=> Len(obsrv2) > 0

\* C21: once the reduction loop has run through its rvno iterations, no step
\* of the call writes a field of the orbit, of a component or of a
\* dependency record: the records returned or handed to the construction are
\* those the loop left.
C21_NoWriteAfterReduction ==
    [][(pc = "reduce" /\ i >= rvno)
        => UNCHANGED <<orbit, comp1, comp2, lcdep1, lcdep2, rvdep1, rvdep2>>]_vars

\* C22: a line with two or more '=' is split at the first one: the key is the
\* text before it, the value all the text after it, and the step on the line
\* is the step of a key/value line with that key and that value (the index
\* resolved, the value normalized, the key routed), not a skip.
C22_SplitAtFirst ==
    [][(LineStep /\ CharAt(file[pos], 0) # "#" /\ Count(file[pos], "=") >= 2)
        => LET key0 == KeyOf(file[pos])
               s1   == IF HasBracket(key0)
                       THEN [Bind(Locals, "index") EXCEPT !.index = BracketIndex(key0)]
                       ELSE Locals
               key  == StripKey(StripBracket(key0))
               exp  == IF key.ok
                       THEN Route(s1, key.key, PassbandRemap(ValOf(file[pos])))
                       ELSE Raised(s1)
           IN  IF exp.ok
               THEN pc' = "lines" /\ pos' = pos + 1 /\ Locals' = exp.s
               ELSE pc' = "failed"]_vars

\* C23: the step on a phoebe_ld_rvy1 (resp. phoebe_ld_rvy2) line read while
\* no phoebe_ld_rvx1 (resp. phoebe_ld_rvx2) line has been read ends the call
\* in failure and appends nothing; a star's pair sequence is empty as long as
\* the star's x is unbound; and a failed call has returned and built nothing.
C23_RvyBeforeRvxFails ==
    /\ [][(/\ LineStep
            /\ CharAt(file[pos], 0) # "#"
            /\ SplitsInTwo(file[pos])
            /\ \E n \in {"1", "2"} :
                  /\ BareKey(file[pos]) = "phoebe_ld_rvy" \o n
                  /\ ("ld_rvx" \o n) \notin defined)
            => (pc' = "failed" /\ UNCHANGED <<ld_coeffs1, ld_coeffs2, result, built>>)]_vars
    /\ []("ld_rvx1" \notin defined => ld_coeffs1 = <<>>)
    /\ []("ld_rvx2" \notin defined => ld_coeffs2 = <<>>)
    /\ [](pc = "failed" => (result = NoResult /\ built = NotBuilt))

\* The call has failed at a phoebe_ld_rvy1 line that comes after the x of
\* star 2 and before the x of star 1.
C23_Witness ==
    /\ pc = "failed"
    /\ pos <= Len(file)
    /\ BareKey(file[pos]) = "phoebe_ld_rvy1"
    /\ defined \cap {"ld_rvx1", "ld_rvx2"} = {"ld_rvx2"}
    /\ ld_coeffs1 = <<>>
    /\ result = NoResult

\* C24: a call of from_supconj_to_perpass changes no field of the orbit it
\* is given, so the epoch a second call computes from the orbit is the epoch
\* the first call computed.
C24_TransformLeavesOrbit ==
    [][(pc = "done" /\ ncalls' = ncalls + 1)
        => /\ orbit' = orbit
           /\ PerpassEpoch(orbit'.t0.value, orbit'.phshift.value,
                           orbit'.period.value, orbit'.per0.value)
              = PerpassEpoch(orbit.t0.value, orbit.phshift.value,
                             orbit.period.value, orbit.per0.value)]_vars

\* C25: once the last line is consumed, the nine RV accumulator sequences
\* have one length, the number of phoebe_rv_dep lines of the file; position n
\* of the tags, file names, passbands, identifiers and weights holds what the
\* n-th line of its key gives; and every iteration of the reduction loop
\* finds its position in each of them.
C25_AccumulatorsAligned ==
    LET Lines(key) == {p \in 1..Len(file) : /\ CharAt(file[p], 0) # "#"
                                            /\ SplitsInTwo(file[p])
                                            /\ BareKey(file[p]) = key}
        Nth(S, n) == CHOOSE p \in S : Cardinality({q \in S : q < p}) = n - 1
        InOrder(seq, key, F(_)) ==
            /\ Len(seq) = Cardinality(Lines(key))
            /\ \A n \in 1..Len(seq) :
                  seq[n] = F(PassbandRemap(ValOf(file[Nth(Lines(key), n)])))
        lens == {Len(rv_dep), Len(rv_pb), Len(rv_file), Len(rvname),
                 Len(rv_pbweight), Len(rvtime), Len(rvsigma), Len(ld_coeffs1),
                 Len(ld_coeffs2)}
    IN  /\ (pc = "lines" /\ pos > Len(file)) =>
              /\ lens = {Cardinality(Lines("phoebe_rv_dep"))}
              /\ InOrder(rv_dep, "phoebe_rv_dep", LAMBDA v : Slice(v, 2, -2))
              /\ InOrder(rv_file, "phoebe_rv_filename", LAMBDA v : Slice(v, 2, -2))
              /\ InOrder(rv_pb, "phoebe_rv_filter", LAMBDA v : v)
              /\ InOrder(rvname, "phoebe_rv_id", LAMBDA v : v)
              /\ InOrder(rv_pbweight, "phoebe_rv_sigma", LAMBDA v : PyFloat(v).v)
        /\ (pc = "reduce" /\ i < rvno) => \A n \in lens : i < n

\* C26: in the set that ellc returns in developer mode, as in the set that
\* phoebe returns, there is a parameter fti_oversample and its visibility
\* condition is 'fti_method:oversample': the qualifier it names is
\* fti_method, a parameter of the same set, and the value is 'oversample'.
C26_OversampleConditioned ==
    (call.name \in {"ellc", "phoebe"} /\ ret # NoReturn /\ ret.set) =>
        /\ \E n \in 1..Len(ret.params) : ret.params[n].qualifier = "fti_oversample"
        /\ \A n \in 1..Len(ret.params) :
              ret.params[n].qualifier = "fti_oversample" =>
                  LET vis == ret.params[n].visible_if
                      c   == FindFrom(vis, ":", 0)
                  IN  /\ c > 0
                      /\ Slice(vis, 0, c) = "fti_method"
                      /\ SliceFrom(vis, c + 1) = "oversample"
                      /\ \E x \in 1..Len(ret.params) :
                            ret.params[x].qualifier = Slice(vis, 0, c)

\* C27: on a line whose key is a light-curve key with a bracket suffix [n],
\* read after the phoebe_lcno line: when n is in 1..lcno no slot other than
\* slot n of the two lists is changed; when n is outside 1..lcno ([0]
\* included) no slot is changed and the call ends in failure.
C27_BracketSelectsSlot ==
    [][(/\ LineStep
        /\ CharAt(file[pos], 0) # "#"
        /\ SplitsInTwo(file[pos])
        /\ "lcno" \in defined
        /\ LET key == KeyOf(file[pos])
               a   == FindFrom(key, "[", 0)
               b   == FindFrom(key, "]", a)
           IN  /\ a >= 0 /\ b > a
               /\ PyInt(Slice(key, a + 1, b)).ok
               /\ DropSpaces(Slice(key, 0, a) \o SliceFrom(key, b + 1)) \in LcKeys)
        => LET key == KeyOf(file[pos])
               a   == FindFrom(key, "[", 0)
               n   == PyInt(Slice(key, a + 1, FindFrom(key, "]", a))).v
           IN  IF n \in 1..lcno
               THEN \A x \in (1..lcno) \ {n} :
                        lcdep1'[x] = lcdep1[x] /\ lcdep2'[x] = lcdep2[x]
               ELSE pc' = "failed" /\ lcdep1' = lcdep1 /\ lcdep2' = lcdep2]_vars

\* C28: on a line whose key is not a passband key (phoebe_lc_filter,
\* phoebe_rv_filter) the router is given the raw text after '=': the step is
\* the routing of the key with that text, even when the text holds ':' or
\* begins with 'Bes' after the quote.
C28_RemapOnlyPassbands ==
    [][(/\ LineStep
        /\ CharAt(file[pos], 0) # "#"
        /\ SplitsInTwo(file[pos])
        /\ BareKey(file[pos]) \notin {"", "phoebe_lc_filter", "phoebe_rv_filter"})
        => LET key0 == KeyOf(file[pos])
               s1   == IF HasBracket(key0)
                       THEN [Bind(Locals, "index") EXCEPT !.index = BracketIndex(key0)]
                       ELSE Locals
               exp  == Route(s1, BareKey(file[pos]), ValOf(file[pos]))
           IN  IF exp.ok
               THEN pc' = "lines" /\ pos' = pos + 1 /\ Locals' = exp.s
               ELSE pc' = "failed"]_vars

\* C29: after the call has returned, through any number of calls of
\* from_supconj_to_perpass on the returned orbit, the tag t0type names the
\* convention of the stored epoch: a step that moves t0 away from the
\* superior-conjunction epoch does not leave the tag 'superior conjunction'.
C29_TagNamesConvention ==
    [][(/\ pc = "done"
        /\ orbit.t0type.value = "superior conjunction"
        /\ orbit'.t0.value # orbit.t0.value)
        => orbit'.t0type.value # "superior conjunction"]_vars

\* C30: at the start of every iteration of the reduction loop (and at its
\* end), j + k = i, j <= prim_rv, k <= sec_rv, l <= j, m <= k, l is the
\* number of observation records of the primary and m of the secondary; and
\* when rvno does not exceed the number of phoebe_rv_dep lines, the slot the
\* iteration writes, rvdep1[j] for a primary entry and rvdep2[k] for a
\* secondary one, is inside the list allocated.
C30_LoopCounters ==
    pc = "reduce" =>
        /\ j + k = i
        /\ j <= prim_rv /\ k <= sec_rv
        /\ l <= j /\ m <= k
        /\ l = Len(obsrv1) /\ m = Len(obsrv2)
        /\ Len(rvdep1) = prim_rv /\ Len(rvdep2) = sec_rv
        /\ (i < rvno /\ rvno <= Len(rv_dep)) =>
              IF rv_dep[i + 1] = "Primary RV" THEN j < Len(rvdep1) ELSE k < Len(rvdep2)

\* The loop is at the start of its second iteration, after a primary entry
\* with a data file and before a secondary entry, in a file whose rvno is the
\* number of its phoebe_rv_dep lines.
C30_Witness ==
    /\ pc = "reduce"
    /\ rvno = 2 /\ Len(rv_dep) = 2
    /\ rv_dep[2] = "Secondary RV"
    /\ i = 1 /\ j = 1 /\ k = 0 /\ l = 1 /\ m = 0
    /\ Len(obsrv1) = 1
    /\ Len(rvdep2) = 1

====
